---- MODULE Spec2Model ----
(***************************************************************************)
(* A model of github.com/kenshaw/webfonts: the route builder (route.go,    *)
(* BuildRoutes / process / tpl) and the stylesheet parser (font.go,        *)
(* FontsFromStylesheetReader / parseSrcAndFormat).                         *)
(*                                                                         *)
(* Go strings are modelled as sequences of byte values, so that            *)
(* sort.Strings (bytewise lexicographic order), concatenation, slicing     *)
(* and the regular expressions are computed as the code computes them.     *)
(*                                                                         *)
(* Specifications:                                                         *)
(*   Spec       BuildRoutes, invoked on a list of faces and then invoked   *)
(*              a second time on the same list or a reordering of it       *)
(*   SpecParse  FontsFromStylesheetReader on a stylesheet document         *)
(*   SpecSrc    parseSrcAndFormat on the text of a src declaration         *)
(*   SpecConc   two concurrent invocations of BuildRoutes                  *)
(*   SpecClient a Client and the calls of Faces, All, Format, Available    *)
(***************************************************************************)
EXTENDS Integers, Sequences, FiniteSets, TLC

VARIABLES
    \* ---- BuildRoutes (route.go) ----
    prefix,      \* argument prefix
    fonts,       \* argument fonts of the running invocation
    pc,          \* "idle" (not yet called), "loop" (at line 34), "done" (returned)
                 \* ("off" where the route builder takes no part)
    families,    \* the three-level map built at lines 16-26
    familyKeys,  \* the sorted family names (line 32)
    fi,          \* number of completed iterations of the loop at line 34
    calls,       \* the calls of h made by the running invocation, in order:
                 \* family, css (the stylesheet), routes, and ret (what h returned)
    result,      \* the returned error: "none" before the return, "nil", or the error
    run,         \* 1: first invocation, 2: second invocation
    first,       \* what the first invocation was given and did (fonts, calls, result)
    \* ---- FontsFromStylesheetReader (font.go) ----
    doc,         \* the stylesheet text, as its lines/rules in document order
    ppc,         \* "start", "rules" (in the loop at line 42), "returned", "panicked"
                 \* ("off" where the parser takes no part)
    subsets,     \* subsetRE.FindAllStringSubmatch(s, -1) (line 38)
    rules,       \* css.Parse(s).GetCSSRuleList() (line 40)
    ri,          \* number of rules the loop at line 42 is done with
    pfonts,      \* the local fonts (line 41)
    pret,        \* what the call ended with: the returned fonts and err, or
                 \* the value it panicked with
    \* ---- parseSrcAndFormat (font.go) ----
    sarg,        \* the argument: the url, the format token and the shape the
                 \* text of the src declaration is made of
    spc,         \* "call" (called), "done" (returned)
                 \* ("off" where the function is not called on its own)
    sret,        \* the returned url, format and err
    \* ---- two concurrent calls of BuildRoutes; each variable is a function
    \* ---- of the goroutine
    gin,         \* the arguments: fonts, and failAt, the number of the call of
                 \* the sink that returns an error (0: none does)
    gpc,         \* "idle", "family" (at line 34), "groups" (in the loops at
                 \* lines 44-60), "done" ("off" without concurrent calls)
    gfamilies,   \* the local families
    gkeys,       \* the local familyKeys
    gfi,         \* number of completed iterations of the loop at line 34
    gpairs,      \* the (style, weight) groups of the family still to process
    gbuf,        \* the buffer buf
    groutes,     \* the local routes
    gcalls,      \* the calls of the sink made so far
    gresult,     \* the returned error, "none" before the return
    \* ---- a Client and the calls made on it
    cl,          \* the Client: appCacheDir, userAgent, cl, svc and whether
                 \* once has run its function
    inits,       \* how often the function given to once.Do has run
    ncalls,      \* number of calls made
    firstInitErr,\* the error init returned in the first call, "none" before
    last         \* the last call: its result, its requests, the errors of
                 \* init and get in it

bvars == <<prefix, fonts, pc, families, familyKeys, fi, calls, result, run, first>>
pvars == <<doc, ppc, subsets, rules, ri, pfonts, pret>>
svars == <<sarg, spc, sret>>
gvars == <<gin, gpc, gfamilies, gkeys, gfi, gpairs, gbuf, groutes, gcalls, gresult>>
kvars == <<cl, inits, ncalls, firstInitErr, last>>
vars == <<prefix, fonts, pc, families, familyKeys, fi, calls, result, run, first,
          doc, ppc, subsets, rules, ri, pfonts, pret,
          sarg, spc, sret,
          gin, gpc, gfamilies, gkeys, gfi, gpairs, gbuf, groutes, gcalls, gresult,
          cl, inits, ncalls, firstInitErr, last>>

(***************************************************************************)
(* Bounds of the model.                                                    *)
(***************************************************************************)
\* longest list of faces handed to BuildRoutes
MaxFonts == 3
\* longest stylesheet document (comment lines and rules) handed to the parser
MaxItems == 4
\* longest list of faces handed to each of two concurrent calls of BuildRoutes
MaxConcFonts == 2
\* number of calls made on one Client
MaxCalls == 3

(***************************************************************************)
(* Strings used as inputs, as byte sequences.                              *)
(***************************************************************************)
fam_A == <<65>>  \* "A"
fam_a == <<97>>  \* "a"
fam_a_sp == <<97, 32>>  \* "a "
sty_italic == <<105, 116, 97, 108, 105, 99>>  \* "italic"
sty_normal == <<110, 111, 114, 109, 97, 108>>  \* "normal"
w_1000 == <<49, 48, 48, 48>>  \* "1000"
w_200 == <<50, 48, 48>>  \* "200"
w_400 == <<52, 48, 48>>  \* "400"
w_700 == <<55, 48, 48>>  \* "700"
d_swap == <<115, 119, 97, 112>>  \* "swap"
st_condensed == <<99, 111, 110, 100, 101, 110, 115, 101, 100>>  \* "condensed"
fmt_otf == <<111, 116, 102>>  \* "otf"
url_1 == <<104, 116, 116, 112, 115, 58, 47, 47, 120, 47, 102, 51, 57, 56, 48, 53, 46, 119, 111, 102, 102, 50>>  \* "https://x/f39805.woff2"
url_2 == <<104, 116, 116, 112, 115, 58, 47, 47, 120, 47, 102, 52, 51, 53, 51, 52, 46, 119, 111, 102, 102, 50>>  \* "https://x/f43534.woff2"
url_3 == <<104, 116, 116, 112, 115, 58, 47, 47, 120, 47, 98, 46, 119, 111, 102, 102, 50>>  \* "https://x/b.woff2"
url_5 == <<104, 116, 116, 112, 115, 58, 47, 47, 120, 47, 100, 46, 101, 111, 116>>  \* "https://x/d.eot"
url_8 == <<104, 116, 116, 112, 115, 58, 47, 47, 120, 47, 104>>  \* "https://x/h"
url_7 == <<104, 116, 116, 112, 115, 58, 47, 47, 120, 47, 103, 46, 111, 116, 102>>  \* "https://x/g.otf"
pfx == <<47, 95, 47>>  \* "/_/"

(***************************************************************************)
(* String literals of route.go.                                            *)
(***************************************************************************)
fmt_eot == <<101, 111, 116>>  \* "eot"
fmt_woff2 == <<119, 111, 102, 102, 50>>  \* "woff2"
fmt_woff == <<119, 111, 102, 102>>  \* "woff"
fmt_ttf == <<116, 116, 102>>  \* "ttf"
fmt_svg == <<115, 118, 103>>  \* "svg"
iefix == <<63, 35, 105, 101, 102, 105, 120>>  \* "?#iefix"
eotfmt == <<101, 109, 98, 101, 100, 100, 101, 100, 45, 111, 112, 101, 110, 116, 121, 112, 101>>  \* "embedded-opentype"
dot == <<46>>  \* "."

(***************************************************************************)
(* type Font (font.go:16-26)                                               *)
(***************************************************************************)
Font(subset, family, style, weight, display, stretch, src, format, range) ==
    [Subset |-> subset, Family |-> family, Style |-> style, Weight |-> weight,
     Display |-> display, Stretch |-> stretch, Src |-> src, Format |-> format,
     Range |-> range]

\* the zero value of Font (var font Font, font.go:47)
ZeroFont == Font(<<>>, <<>>, <<>>, <<>>, <<>>, <<>>, <<>>, <<>>, <<>>)

\* type Route (route.go:71-74)
Route(path, url) == [Path |-> path, URL |-> url]

(***************************************************************************)
(* The faces BuildRoutes is called with: lists over this pool.  The pool   *)
(* holds two faces of one group with the same format and different src     *)
(* (1, 2), a second format in that group (8), two src whose md5 share the   *)
(* first 7 hex characters (1, 3), one src under two styles (1, 4), one src  *)
(* with two formats (6, 8), weights                                         *)
(* whose string order differs from their numeric order (5, 6), family       *)
(* names that differ by case and by a trailing blank (A, a, "a "), and a    *)
(* format the src renderer does not know (7).                              *)
(***************************************************************************)
FacePool ==
    { Font(<<>>, fam_A, sty_normal, w_400, <<>>, <<>>, url_1, fmt_woff2, <<>>),
      Font(<<>>, fam_A, sty_normal, w_400, d_swap, st_condensed, url_3, fmt_woff2, <<>>),
      Font(<<>>, fam_A, sty_normal, w_700, <<>>, <<>>, url_2, fmt_woff2, <<>>),
      Font(<<>>, fam_A, sty_italic, w_400, <<>>, <<>>, url_1, fmt_woff2, <<>>),
      Font(<<>>, fam_a, sty_normal, w_1000, <<>>, <<>>, url_5, fmt_eot, <<>>),
      Font(<<>>, fam_a, sty_normal, w_200, d_swap, <<>>, url_8, fmt_woff, <<>>),
      Font(<<>>, fam_a_sp, sty_normal, w_400, <<>>, <<>>, url_7, fmt_otf, <<>>),
      Font(<<>>, fam_A, sty_normal, w_400, <<>>, <<>>, url_8, fmt_ttf, <<>>),
      Font(<<>>, fam_A, sty_normal, w_400, <<>>, <<>>, url_5, fmt_eot, <<>>),
      Font(<<>>, fam_A, sty_normal, w_400, <<>>, <<>>, url_7, fmt_svg, <<>>) }

\* the prefixes BuildRoutes is called with: "" and "/_/"
Prefixes == { <<>>, pfx }

\* the error values the handler h may return
SinkErrors == { "errA", "errB" }

\* all lists of at most n elements of S
SeqsUpTo(S, n) == UNION { [1..k -> S] : k \in 0..n }

(***************************************************************************)
(* sort.Strings (route.go:32, 40, 50): ascending bytewise order.           *)
(***************************************************************************)
\* a bug: the shorter string first, as numbers of equal width would compare
StrLess_shorterFirst(s, t) ==
    \/ Len(s) < Len(t)
    \/ /\ Len(s) = Len(t)
       /\ \E k \in 1..Len(s) : s[k] < t[k] /\ \A i \in 1..(k - 1) : s[i] = t[i]

\* Go's s < t on strings
RECURSIVE StrLess(_, _)
StrLess(s, t) ==
    IF t = <<>> THEN FALSE
    ELSE IF s = <<>> THEN TRUE
    ELSE IF Head(s) # Head(t) THEN Head(s) < Head(t)
    ELSE StrLess(Tail(s), Tail(t))

\* a bug: x is put in front, whatever s holds
Insert_front(x, s) == <<x>> \o s

\* x placed in the sorted list s
RECURSIVE Insert(_, _)
Insert(x, s) ==
    IF s = <<>> THEN <<x>>
    ELSE IF StrLess(x, Head(s)) THEN <<x>> \o s
    ELSE <<Head(s)>> \o Insert(x, Tail(s))

RECURSIVE InsertionSort(_)
InsertionSort(s) ==
    IF s = <<>> THEN <<>> ELSE Insert(Head(s), InsertionSort(Tail(s)))

\* a bug: the keys are used in the order the map yields them
SortStrings_unsorted(keys) == keys

SortStrings(keys) == InsertionSort(keys)

\* the orders in which "for k := range m" may yield the keys S of a map:
\* Go leaves the iteration order of a map unspecified
RangeOrders(S) ==
    { s \in [1..Cardinality(S) -> S] : \A i, j \in DOMAIN s : i # j => s[i] # s[j] }

(***************************************************************************)
(* Go maps, as functions on the set of their keys.                         *)
(***************************************************************************)
\* make(map[...]...)
EmptyMap == [k \in {} |-> k]

\* m[k] = v
Put(m, k, v) == [x \in (DOMAIN m) \cup {k} |-> IF x = k THEN v ELSE m[x]]

\* m[k] of a map of slices: nil (the empty slice) for a missing key
Lookup(m, k) == IF k \in DOMAIN m THEN m[k] ELSE <<>>

(***************************************************************************)
(* BuildRoutes, lines 16-26: arrange by family, style, weight.             *)
(***************************************************************************)
\* families := make(map[string]map[string]map[string][]Font)  (route.go:16)
NewFamilies == EmptyMap

\* the loop at lines 18-26, m being the map built so far
RECURSIVE ArrangeLoop(_, _)
ArrangeLoop(fs, m) ==
    IF fs = <<>> THEN m
    ELSE LET font == Head(fs)
             m1 == IF font.Family \in DOMAIN m THEN m
                   ELSE Put(m, font.Family, EmptyMap)
             m2 == IF font.Style \in DOMAIN m1[font.Family] THEN m1
                   ELSE Put(m1, font.Family, Put(m1[font.Family], font.Style, EmptyMap))
             old == Lookup(m2[font.Family][font.Style], font.Weight)
             m3 == Put(m2, font.Family,
                       Put(m2[font.Family], font.Style,
                           Put(m2[font.Family][font.Style], font.Weight,
                               Append(old, font))))
         IN  ArrangeLoop(Tail(fs), m3)

(***************************************************************************)
(* md5.Sum and "%x" (route.go:86): the digests of the src strings of the   *)
(* model, in hexadecimal, as md5 computes them.                            *)
(***************************************************************************)
Md5Hex(src) ==
    CASE src = url_1 -> <<97, 48, 56, 101, 99, 50, 102, 102, 57, 98, 49, 99, 51, 50, 102, 53, 50, 55, 56, 51, 49, 56, 54, 48, 50, 48, 99, 99, 55, 54, 98, 48>>  \* a08ec2ff9b1c32f52783186020cc76b0
      [] src = url_2 -> <<97, 48, 56, 101, 99, 50, 102, 48, 50, 102, 49, 52, 50, 51, 99, 54, 55, 102, 50, 57, 101, 97, 57, 51, 50, 49, 48, 101, 97, 56, 55, 98>>  \* a08ec2f02f1423c67f29ea93210ea87b
      [] src = url_3 -> <<52, 55, 56, 54, 57, 56, 97, 54, 50, 49, 57, 97, 51, 102, 51, 101, 55, 52, 49, 49, 97, 53, 49, 100, 53, 48, 54, 56, 49, 55, 48, 101>>  \* 478698a6219a3f3e7411a51d5068170e
      [] src = url_5 -> <<99, 56, 55, 57, 97, 97, 51, 54, 49, 48, 55, 57, 52, 51, 50, 99, 50, 48, 100, 51, 98, 53, 54, 53, 101, 55, 57, 52, 50, 101, 57, 50>>  \* c879aa361079432c20d3b565e7942e92
      [] src = url_8 -> <<57, 54, 48, 51, 50, 100, 100, 53, 53, 50, 102, 48, 100, 54, 101, 49, 50, 52, 102, 53, 102, 52, 54, 50, 99, 51, 100, 48, 50, 99, 50, 99>>  \* 96032dd552f0d6e124f5f462c3d02c2c
      [] src = url_7 -> <<102, 49, 97, 57, 51, 56, 101, 97, 100, 102, 48, 101, 57, 48, 98, 99, 101, 100, 48, 101, 51, 97, 50, 53, 55, 54, 56, 98, 102, 50, 100, 99>>  \* f1a938eadf0e90bced0e3a25768bf2dc

\* hash := fmt.Sprintf("%x", md5.Sum([]byte(font.Src)))[:7]  (route.go:86)
RouteHash(font) == SubSeq(Md5Hex(font.Src), 1, 7)

\* path := hash + "." + font.Format  (route.go:87)
RouteIdentifier(font) == RouteHash(font) \o dot \o font.Format

(***************************************************************************)
(* tpl (route.go:116-130) and stylesheet.css.tpl.  One execution of the    *)
(* template writes one @font-face block; a block is modelled as the list   *)
(* of its declarations, and the value of its src declaration as the list   *)
(* of the entries the src function joins.                                  *)
(***************************************************************************)
\* a bug: the formats in alphabetical order
SrcFormats_sorted == <<fmt_svg, fmt_ttf, fmt_woff, fmt_woff2>>

\* the formats the src function looks up after eot, in its order (route.go:123)
SrcFormats == <<fmt_woff2, fmt_woff, fmt_ttf, fmt_svg>>

\* the loop at route.go:123-127
RECURSIVE SrcLoop(_, _, _)
SrcLoop(fs, m, paths) ==
    IF fs = <<>> THEN paths
    ELSE SrcLoop(Tail(fs), m,
                 IF Head(fs) \in DOMAIN m
                 THEN Append(paths, [kind |-> "url", url |-> m[Head(fs)], format |-> Head(fs)])
                 ELSE paths)

\* the template function "src" (route.go:117-129)
SrcFunc(m) ==
    LET pre == IF fmt_eot \in DOMAIN m
               THEN << [kind |-> "legacy", url |-> m[fmt_eot]],
                       [kind |-> "url", url |-> m[fmt_eot] \o iefix, format |-> eotfmt] >>
               ELSE <<>>
    IN  pre \o SrcLoop(SrcFormats, m, << [kind |-> "local"] >>)

\* tpl.Execute(w, data): stylesheet.css.tpl, lines 1-12
TplExecute(data) ==
    << [prop |-> "font-family", val |-> data.family],
       [prop |-> "font-style", val |-> data.style],
       [prop |-> "font-weight", val |-> data.weight] >>
    \o (IF data.display # <<>> THEN << [prop |-> "font-display", val |-> data.display] >> ELSE <<>>)
    \o (IF data.stretch # <<>> THEN << [prop |-> "font-stretch", val |-> data.stretch] >> ELSE <<>>)
    \o << [prop |-> "src", val |-> SrcFunc(data.paths)] >>

(***************************************************************************)
(* process (route.go:78-113)                                               *)
(***************************************************************************)
\* a bug: the route carries the prefixed path
RoutePath_prefixed(pre, font) == pre \o RouteIdentifier(font)

\* Path: path  (route.go:96)
RoutePath(pre, font) == RouteIdentifier(font)

\* paths[font.Format] = prefix + path  (route.go:88)
StylesheetPath(pre, font) == pre \o RouteIdentifier(font)

\* a bug: a later face of a format replaces the earlier one
SeenFormat_never(paths, font) == FALSE

\* _, ok := paths[font.Format]  (route.go:85)
SeenFormat(paths, font) == font.Format \in DOMAIN paths

\* a bug: the value of the face is never taken
FirstNonEmpty_kept(current, value) == current

\* lines 89-94: display and stretch take the value of the face when it is
\* not empty and they are still empty
FirstNonEmpty(current, value) ==
    IF value # <<>> /\ current = <<>> THEN value ELSE current

\* the loop at lines 84-100; acc holds routes, display, stretch and paths
RECURSIVE ProcessLoop(_, _, _)
ProcessLoop(pre, group, acc) ==
    IF group = <<>> THEN acc
    ELSE LET font == Head(group)
         IN  IF SeenFormat(acc.paths, font)
             THEN ProcessLoop(pre, Tail(group), acc)
             ELSE ProcessLoop(pre, Tail(group),
                    [paths   |-> Put(acc.paths, font.Format, StylesheetPath(pre, font)),
                     display |-> FirstNonEmpty(acc.display, font.Display),
                     stretch |-> FirstNonEmpty(acc.stretch, font.Stretch),
                     routes  |-> Append(acc.routes, Route(RoutePath(pre, font), font.Src))])

\* process: the routes returned and the block written to w.  tpl.Execute
\* does not fail on this data, so the error return at line 110 is not taken.
process(pre, family, style, weight, fams) ==
    LET acc == ProcessLoop(pre, fams[family][style][weight],
                           [paths |-> EmptyMap, display |-> <<>>, stretch |-> <<>>,
                            routes |-> <<>>])
    IN  [routes |-> acc.routes,
         block  |-> TplExecute([family |-> family, style |-> style, weight |-> weight,
                                display |-> acc.display, stretch |-> acc.stretch,
                                paths |-> acc.paths])]

(***************************************************************************)
(* BuildRoutes, lines 35-60: the body of one iteration of the family loop, *)
(* up to the call of the handler.  styleOrder and weightOrder[style] are   *)
(* the orders in which the ranges at lines 37 and 47 yield the keys.       *)
(***************************************************************************)
\* the loop at lines 52-59; out holds buf and routes
RECURSIVE WeightLoop(_, _, _, _, _, _)
WeightLoop(pre, family, style, weightKeys, fams, out) ==
    IF weightKeys = <<>> THEN out
    ELSE LET r == process(pre, family, style, Head(weightKeys), fams)
         IN  WeightLoop(pre, family, style, Tail(weightKeys), fams,
                        [buf |-> Append(out.buf, r.block), routes |-> out.routes \o r.routes])

\* the loop at lines 44-60
RECURSIVE StyleLoop(_, _, _, _, _, _)
StyleLoop(pre, family, styleKeys, weightOrder, fams, out) ==
    IF styleKeys = <<>> THEN out
    ELSE StyleLoop(pre, family, Tail(styleKeys), weightOrder, fams,
                   WeightLoop(pre, family, Head(styleKeys),
                              SortStrings(weightOrder[Head(styleKeys)]), fams, out))

\* the routes of a list of calls of the handler, one after the other
RECURSIVE RoutesOf(_)
RoutesOf(cs) == IF cs = <<>> THEN <<>> ELSE Head(cs).routes \o RoutesOf(Tail(cs))

\* a bug: routes is a package-level slice, never reset
NewRoutes_global == RoutesOf(first.calls) \o RoutesOf(calls)

\* var routes []Route  (route.go:42)
NewRoutes == <<>>

\* buf := new(bytes.Buffer)  (route.go:41)
NewBuffer == <<>>

\* lines 35-60: the body of the family loop up to the call of the handler
FamilyBody(pre, family, styleOrder, weightOrder, fams) ==
    StyleLoop(pre, family, SortStrings(styleOrder), weightOrder, fams,
              [buf |-> NewBuffer, routes |-> NewRoutes])

\* the orders in which the weights of every style of a family may be yielded
WeightOrders(fam) ==
    { f \in [DOMAIN fam -> UNION { RangeOrders(DOMAIN fam[s]) : s \in DOMAIN fam }] :
        \A s \in DOMAIN fam : f[s] \in RangeOrders(DOMAIN fam[s]) }

\* a bug: the handler's error is wrapped in a new error
HandlerError_wrapped(err) == <<"BuildRoutes", err>>

\* return err  (route.go:63)
HandlerError(err) == err

(***************************************************************************)
(* The second invocation is given the list of the first, or that list      *)
(* with its first two faces exchanged, or rotated by one place.  The two   *)
(* reorderings generate every permutation of the list.                     *)
(***************************************************************************)
SwapFirstTwo(s) == IF Len(s) < 2 THEN s ELSE <<s[2], s[1]>> \o SubSeq(s, 3, Len(s))
Rotate(s) == IF Len(s) < 2 THEN s ELSE Tail(s) \o <<Head(s)>>
Reorderings(s) == { s, SwapFirstTwo(s), Rotate(s) }

NoFirst == [fonts |-> <<>>, calls |-> <<>>, result |-> "none"]

(***************************************************************************)
(* Byte strings: helpers for the regular expressions and the string        *)
(* functions font.go uses.                                                 *)
(***************************************************************************)
\* t holds lit at position p
HasAt(t, p, lit) ==
    /\ p >= 1
    /\ p + Len(lit) - 1 <= Len(t)
    /\ SubSeq(t, p, p + Len(lit) - 1) = lit

\* \s of Go's regexp: [\t\n\f\r ]
IsSpace(c) == c \in {9, 10, 12, 13, 32}

\* the least and the greatest member of a set of positions
Min(S) == CHOOSE q \in S : \A r \in S : q <= r
Max(S) == CHOOSE q \in S : \A r \in S : r <= q

\* the member of a set of one value.  Only({ e : x \in {v} }) is e with x
\* standing for the value of v.
Only(S) == CHOOSE v \in S : TRUE

\* the first of the positions S of the text from p on; without one, the
\* position after the text of n bytes (p itself when p lies beyond it)
FirstOf(S, p, n) == IF S # {} THEN Min(S) ELSE IF p > n THEN p ELSE n + 1

\* the last of the positions S, 0 without one
LastOf(S) == IF S = {} THEN 0 ELSE Max(S)

\* the end of the run of bytes other than c that starts at p
RunEnd(t, p, c) == FirstOf({ q \in p..Len(t) : t[q] = c }, p, Len(t))

\* the end of the run of white space that starts at p
SpaceEnd(t, p) == FirstOf({ q \in p..Len(t) : ~ IsSpace(t[q]) }, p, Len(t))

\* ^ and $ under (?m): p is at the start of a line; the text, or its line,
\* ends before position p
AtLineStart(t, p) == p = 1 \/ t[p - 1] = 10
AtLineEnd(t, p) == p = Len(t) + 1 \/ (p <= Len(t) /\ t[p] = 10)

lit_url == <<117, 114, 108, 40>>  \* "url("
lit_format == <<102, 111, 114, 109, 97, 116, 40, 39>>  \* "format('"
lit_close == <<39, 41>>  \* "')"
lit_copen == <<47, 42>>  \* "/*"
lit_cclose == <<42, 47>>  \* "*/"

NoMatch == [ok |-> FALSE]

(***************************************************************************)
(* srcRE (font.go:107):                                                    *)
(*   (?m)^url\(([^\)]+)\)(?:\s+format\('([^']+)'\))?$                      *)
(***************************************************************************)
\* the optional group (?:\s+format\('([^']+)'\))? tried at position p,
\* followed by $: white space up to w, the format from w+8 up to f1
SrcFormatGroup(t, p) ==
    Only({ IF ~ (w > p /\ HasAt(t, w, lit_format)) THEN NoMatch
           ELSE Only({ IF /\ f1 > w + Len(lit_format)
                          /\ HasAt(t, f1, lit_close)
                          /\ AtLineEnd(t, f1 + 2)
                       THEN [ok |-> TRUE, end |-> f1 + 2,
                             format |-> SubSeq(t, w + Len(lit_format), f1 - 1)]
                       ELSE NoMatch
                       : f1 \in {RunEnd(t, w + Len(lit_format), 39)} })
           : w \in {SpaceEnd(t, p)} })

\* the match of srcRE that starts at position p, if there is one: its two
\* submatches and the position after it.  The url runs from p+4 up to b.
SrcMatchAt(t, p) ==
    IF ~ (AtLineStart(t, p) /\ HasAt(t, p, lit_url)) THEN NoMatch
    ELSE Only({ IF ~ (b > p + Len(lit_url) /\ b <= Len(t)) THEN NoMatch
                ELSE Only({ IF g.ok
                            THEN [ok |-> TRUE, end |-> g.end,
                                  url |-> SubSeq(t, p + Len(lit_url), b - 1),
                                  format |-> g.format]
                            ELSE IF AtLineEnd(t, b + 1)
                            THEN [ok |-> TRUE, end |-> b + 1,
                                  url |-> SubSeq(t, p + Len(lit_url), b - 1),
                                  format |-> <<>>]
                            ELSE NoMatch
                            : g \in {SrcFormatGroup(t, b + 1)} })
                : b \in {RunEnd(t, p + Len(lit_url), 41)} })

\* the start of the line after the one position p lies in: a match starts
\* at the start of a line only, so the search goes on there
NextLine(t, p) == RunEnd(t, p, 10) + 1

\* srcRE.FindAllStringSubmatch(t, -1), searching from position p on
RECURSIVE SrcFindAll(_, _)
SrcFindAll(t, p) ==
    IF p > Len(t) THEN <<>>
    ELSE Only({ IF m.ok THEN <<m>> \o SrcFindAll(t, m.end)
                ELSE SrcFindAll(t, NextLine(t, p))
                : m \in {SrcMatchAt(t, p)} })

(***************************************************************************)
(* subsetRE (font.go:85):  (?m)^/\*\s+([a-z0-9-]+)\s+\*/$                  *)
(***************************************************************************)
\* [a-z0-9-]
IsSubsetChar(c) == (c >= 97 /\ c <= 122) \/ (c >= 48 /\ c <= 57) \/ c = 45

\* the end of the run of bytes of [a-z0-9-] that starts at p
TokenEnd(t, p) == FirstOf({ q \in p..Len(t) : ~ IsSubsetChar(t[q]) }, p, Len(t))

\* the rest of a match of subsetRE whose token runs from a up to b: white
\* space up to c, then "*/" and the end of the line
SubsetMatchTail(t, a, b) ==
    Only({ IF c > b /\ HasAt(t, c, lit_cclose) /\ AtLineEnd(t, c + 2)
           THEN [ok |-> TRUE, end |-> c + 2, token |-> SubSeq(t, a, b - 1)]
           ELSE NoMatch
           : c \in {SpaceEnd(t, b)} })

\* the match of subsetRE that starts at position p, if there is one.  The
\* white space before the token is a maximal run (the token holds none),
\* and so is the token (a byte of the token is not white space); the white
\* space after it is followed by "*/", which holds no white space.
SubsetMatchAt(t, p) ==
    IF ~ (AtLineStart(t, p) /\ HasAt(t, p, lit_copen)) THEN NoMatch
    ELSE Only({ IF ~ (a > p + 2) THEN NoMatch
                ELSE Only({ IF b > a THEN SubsetMatchTail(t, a, b) ELSE NoMatch
                            : b \in {TokenEnd(t, a)} })
                : a \in {SpaceEnd(t, p + 2)} })

\* subsetRE.FindAllStringSubmatch(t, -1), searching from position p on
RECURSIVE SubsetFindAll(_, _)
SubsetFindAll(t, p) ==
    IF p > Len(t) THEN <<>>
    ELSE Only({ IF m.ok THEN <<m>> \o SubsetFindAll(t, m.end)
                ELSE SubsetFindAll(t, NextLine(t, p))
                : m \in {SubsetMatchAt(t, p)} })

(***************************************************************************)
(* url.Parse, path.Base, path.Ext, strings.ToLower, strings.TrimPrefix     *)
(* (font.go:94-99).  The urls of the model hold no percent escapes and no  *)
(* ports or user names, so url.Parse fails on control bytes, on a missing  *)
(* scheme before ":" and on a colon in the first path segment only.        *)
(***************************************************************************)
\* t up to the first byte c
Before(t, c) == SubSeq(t, 1, RunEnd(t, 1, c) - 1)

IsLetter(c) == (c >= 97 /\ c <= 122) \/ (c >= 65 /\ c <= 90)
IsSchemeChar(c) == IsLetter(c) \/ (c >= 48 /\ c <= 57) \/ c \in {43, 45, 46}

\* getScheme of net/url: the length of the scheme, 0 when there is none,
\* -1 for "missing protocol scheme" (a colon in front).  The scan stops at
\* the first byte q that cannot continue a scheme; a scheme ends at a colon.
SchemeLen(t) ==
    Only({ IF q > Len(t) THEN 0
           ELSE IF t[q] # 58 THEN 0
           ELSE IF q = 1 THEN -1
           ELSE q - 1
           : q \in {FirstOf({ i \in DOMAIN t :
                                ~ (IsLetter(t[i]) \/ (i > 1 /\ IsSchemeChar(t[i]))) },
                            1, Len(t))} })

\* the Path of a URL with scheme length sl whose text, after the scheme and
\* without query and fragment, is rest
UrlPath(sl, rest) ==
    IF sl = -1
    THEN [err |-> "missing protocol scheme"]
    ELSE IF rest = <<42>> /\ sl = 0
    THEN [err |-> "nil", Path |-> <<42>>]
    ELSE IF ~ HasAt(rest, 1, <<47>>) /\ sl > 0
    THEN [err |-> "nil", Path |-> <<>>]
    ELSE IF ~ HasAt(rest, 1, <<47>>) /\ (\E i \in 1..(RunEnd(rest, 1, 47) - 1) : rest[i] = 58)
    THEN [err |-> "first path segment in URL cannot contain colon"]
    ELSE IF HasAt(rest, 1, <<47, 47>>) /\ (sl > 0 \/ ~ HasAt(rest, 1, <<47, 47, 47>>))
    THEN [err |-> "nil", Path |-> SubSeq(rest, RunEnd(rest, 3, 47), Len(rest))]
    ELSE [err |-> "nil", Path |-> rest]

\* url.Parse(raw): the Path of the URL, or an error
UrlParse(raw) ==
    IF \E i \in DOMAIN raw : raw[i] < 32 \/ raw[i] = 127
    THEN [err |-> "invalid control character in URL"]
    ELSE Only({ Only({ Only({ UrlPath(sl, rest)
                              : rest \in {Before(IF sl > 0
                                                 THEN SubSeq(noFrag, sl + 2, Len(noFrag))
                                                 ELSE noFrag, 63)} })
                       : sl \in {SchemeLen(noFrag)} })
                : noFrag \in {Before(raw, 35)} })

\* the position of the last byte c of t, 0 when there is none
LastIndex(t, c) == LastOf({ q \in DOMAIN t : t[q] = c })

\* t without its trailing slashes
StripSlashes(t) == SubSeq(t, 1, LastOf({ q \in DOMAIN t : t[q] # 47 }))

\* path.Base
PathBase(t) ==
    IF t = <<>> THEN <<46>>
    ELSE Only({ IF u = <<>> THEN <<47>> ELSE SubSeq(u, LastIndex(u, 47) + 1, Len(u))
                : u \in {StripSlashes(t)} })

\* path.Ext: from the last dot of the last element on
PathExt(t) ==
    Only({ IF d > s THEN SubSeq(t, d, Len(t)) ELSE <<>>
           : d \in {LastIndex(t, 46)}, s \in {LastIndex(t, 47)} })

\* strings.ToLower, on ASCII
ToLower(t) == [i \in DOMAIN t |-> IF t[i] >= 65 /\ t[i] <= 90 THEN t[i] + 32 ELSE t[i]]

\* strings.TrimPrefix(t, ".")
TrimDot(t) == IF HasAt(t, 1, <<46>>) THEN Tail(t) ELSE t

(***************************************************************************)
(* Go error values: nil, or fmt.Errorf(msg + " %q", arg)                   *)
(***************************************************************************)
NilErr == [msg |-> "nil"]
Errorf(msg, arg) == [msg |-> msg, arg |-> arg]

(***************************************************************************)
(* parseSrcAndFormat (font.go:88-104)                                      *)
(***************************************************************************)
\* a bug: the format(...) token is preferred to the file extension
FormatOf_tokenFirst(m, u) ==
    IF u.err # "nil"
    THEN [url |-> <<>>, format |-> <<>>, err |-> Errorf("invalid src url", m.url)]
    ELSE Only({ [url |-> m.url,
                 format |-> IF m.format = <<>> THEN ext ELSE m.format,
                 err |-> NilErr]
                : ext \in {ToLower(TrimDot(PathExt(PathBase(u.Path))))} })

\* lines 93-103, m being the one match of srcRE and u the parsed URL
FormatOf(m, u) ==
    IF u.err # "nil"
    THEN [url |-> <<>>, format |-> <<>>, err |-> Errorf("invalid src url", m.url)]
    ELSE Only({ [url |-> m.url,
                 format |-> IF ext = <<>> THEN m.format ELSE ext,
                 err |-> NilErr]
                : ext \in {ToLower(TrimDot(PathExt(PathBase(u.Path))))} })

parseSrcAndFormat(src) ==
    Only({ IF Len(m) # 1
           THEN [url |-> <<>>, format |-> <<>>, err |-> Errorf("invalid src", src)]
           ELSE Only({ FormatOf(m[1], u) : u \in {UrlParse(m[1].url)} })
           : m \in {SrcFindAll(src, 1)} })

(***************************************************************************)
(* The stylesheets the parser is called with.  A document is a list of     *)
(* items in document order: comment lines, and rules as css.Parse yields   *)
(* them (the type of the rule and, for @font-face, its declarations with   *)
(* the text of their values).  Rules hold no comments.                     *)
(***************************************************************************)
c_latin == <<47, 42, 32, 108, 97, 116, 105, 110, 32, 42, 47>>  \* "/* latin */"
c_latin_ext == <<47, 42, 32, 108, 97, 116, 105, 110, 45, 101, 120, 116, 32, 42, 47>>  \* "/* latin-ext */"
c_Latin == <<47, 42, 32, 76, 97, 116, 105, 110, 32, 42, 47>>  \* "/* Latin */"
v_famA == <<39, 65, 39>>  \* "'A'"
v_src_full == <<117, 114, 108, 40, 104, 116, 116, 112, 115, 58, 47, 47, 120, 47, 97, 46, 119, 111, 102, 102, 50, 41, 32, 102, 111, 114, 109, 97, 116, 40, 39, 119, 111, 102, 102, 50, 39, 41>>  \* "url(https://x/a.woff2) format('woff2')"
v_src_bare == <<117, 114, 108, 40, 104, 116, 116, 112, 115, 58, 47, 47, 120, 47, 104, 41>>  \* "url(https://x/h)"
v_src_two == <<117, 114, 108, 40, 104, 116, 116, 112, 115, 58, 47, 47, 120, 47, 97, 46, 119, 111, 102, 102, 50, 41, 10, 117, 114, 108, 40, 104, 116, 116, 112, 115, 58, 47, 47, 120, 47, 98, 46, 119, 111, 102, 102, 50, 41>>  \* "url(https://x/a.woff2)", a line feed, "url(https://x/b.woff2)"
v_src_bad == <<110, 111, 110, 115, 101, 110, 115, 101>>  \* "nonsense"
v_range == <<85, 43, 48, 48, 48, 48, 45, 48, 48, 70, 70, 44, 32, 85, 43, 48, 49, 51, 49>>  \* "U+0000-00FF, U+0131"
v_pct == <<57, 48, 37>>  \* "90%"

Comment(text) == [kind |-> "comment", text |-> text]
Rule(type, styles) == [kind |-> "rule", Type |-> type, Styles |-> styles]
Decl(property, value) == [Property |-> property, Value |-> value]

\* a complete @font-face rule
FaceComplete ==
    Rule("FONT_FACE_RULE",
         << Decl("font-family", v_famA), Decl("font-style", sty_normal),
            Decl("font-weight", w_400), Decl("font-display", d_swap),
            Decl("src", v_src_full), Decl("unicode-range", v_range) >>)

\* an @font-face rule without style and weight, whose src has neither a
\* file extension nor a format
FaceBare ==
    Rule("FONT_FACE_RULE", << Decl("font-family", v_famA), Decl("src", v_src_bare) >>)

\* an @font-face rule with a property the parser does not know
FaceUnknown ==
    Rule("FONT_FACE_RULE",
         << Decl("font-family", v_famA), Decl("font-style", sty_italic),
            Decl("font-weight", w_700), Decl("src", v_src_full),
            Decl("ascent-override", v_pct) >>)

\* an @font-face rule whose src is no url(...)
FaceBadSrc ==
    Rule("FONT_FACE_RULE",
         << Decl("font-family", v_famA), Decl("font-style", sty_normal),
            Decl("font-weight", w_400), Decl("src", v_src_bad) >>)

\* an @font-face rule whose src holds two url(...), each on a line of its own
FaceTwoSrc ==
    Rule("FONT_FACE_RULE",
         << Decl("font-family", v_famA), Decl("font-style", sty_normal),
            Decl("font-weight", w_400), Decl("src", v_src_two) >>)

\* a rule of another kind, such as  body { margin: 0 }
StyleRule == Rule("STYLE_RULE", <<>>)

ItemPool ==
    { Comment(c_latin), Comment(c_latin_ext), Comment(c_Latin),
      StyleRule, FaceComplete, FaceBare, FaceUnknown, FaceBadSrc, FaceTwoSrc }

(***************************************************************************)
(* FontsFromStylesheetReader (font.go:30-82)                               *)
(***************************************************************************)
\* subsetRE.FindAllStringSubmatch(s, -1)  (font.go:38): the matches lie in
\* the comment lines, in document order
RECURSIVE FindSubsets(_)
FindSubsets(d) ==
    IF d = <<>> THEN <<>>
    ELSE (IF Head(d).kind = "comment" THEN SubsetFindAll(Head(d).text, 1) ELSE <<>>)
         \o FindSubsets(Tail(d))

\* css.Parse(s).GetCSSRuleList()  (font.go:40): the rules, in document order
CSSRuleList(d) == SelectSeq(d, LAMBDA item : item.kind = "rule")

\* i of "for i, rule := range rules" (font.go:42), n rules being done
RuleIndex(rs, n) == n

\* lines 48-50: the subset of the face made from the rule with index i
SubsetFor(subs, i) == IF i < Len(subs) THEN subs[i + 1].token ELSE <<>>

\* strings.Split(t, ","): the pieces between the commas
SplitComma(t) ==
    LET commas == { q \in DOMAIN t : t[q] = 44 }
        \* the position of the k-th comma; 0 and Len(t)+1 bound the text
        at(k) == IF k = 0 THEN 0
                 ELSE IF k > Cardinality(commas) THEN Len(t) + 1
                 ELSE CHOOSE q \in commas : Cardinality({ r \in commas : r < q }) = k - 1
    IN  [k \in 1..(Cardinality(commas) + 1) |-> SubSeq(t, at(k - 1) + 1, at(k) - 1)]

\* strings.TrimSpace, on ASCII
TrimSpace(t) ==
    Only({ IF S = {} THEN <<>> ELSE SubSeq(t, Min(S), Max(S))
           : S \in {{ q \in DOMAIN t : ~ (IsSpace(t[q]) \/ t[q] = 11) }} })

\* the default case (font.go:74-76): the panic at line 75 comes before the
\* return at line 76, which is never reached
UnknownProperty(property) ==
    [kind |-> "panic", value |-> Errorf("unknown @font-face property", property)]

\* one pass of the switch at lines 52-77 on declaration style
ApplyStyle(font, style) ==
    LET v == style.Value
    IN  CASE style.Property = "font-family" ->
                IF Len(v) < 2
                THEN [kind |-> "panic", value |-> Errorf("slice bounds out of range", v)]
                ELSE [kind |-> "ok", font |-> [font EXCEPT !.Family = SubSeq(v, 2, Len(v) - 1)]]
          [] style.Property = "font-style" ->
                [kind |-> "ok", font |-> [font EXCEPT !.Style = v]]
          [] style.Property = "font-weight" ->
                [kind |-> "ok", font |-> [font EXCEPT !.Weight = v]]
          [] style.Property = "font-display" ->
                [kind |-> "ok", font |-> [font EXCEPT !.Display = v]]
          [] style.Property = "font-stretch" ->
                [kind |-> "ok", font |-> [font EXCEPT !.Stretch = v]]
          [] style.Property = "src" ->
                Only({ IF r.err # NilErr
                       THEN [kind |-> "return", err |-> r.err]
                       ELSE [kind |-> "ok",
                             font |-> [font EXCEPT !.Src = r.url, !.Format = r.format]]
                       : r \in {parseSrcAndFormat(v)} })
          [] style.Property = "unicode-range" ->
                Only({ [kind |-> "ok",
                        font |-> [font EXCEPT
                                    !.Range = [i \in DOMAIN parts |-> TrimSpace(parts[i])]]]
                       : parts \in {SplitComma(v)} })
          [] OTHER -> UnknownProperty(style.Property)

\* the loop at lines 51-78
RECURSIVE StylesLoop(_, _)
StylesLoop(styles, font) ==
    IF styles = <<>> THEN [kind |-> "ok", font |-> font]
    ELSE Only({ IF r.kind = "ok" THEN StylesLoop(Tail(styles), r.font) ELSE r
                : r \in {ApplyStyle(font, Head(styles))} })

\* lines 47-78: the face built from the rule that follows n rules
BuildFont(subs, rs, n) ==
    StylesLoop(rs[n + 1].Styles,
               [ZeroFont EXCEPT !.Subset = SubsetFor(subs, RuleIndex(rs, n))])

NoReturn == [fonts |-> <<>>, err |-> NilErr, panic |-> NilErr]

\* a bug: the faces built so far are returned with the error
ErrReturn_partial(fs, err) == [NoReturn EXCEPT !.fonts = fs, !.err = err]

\* "return nil, err" (font.go:67), fs being the faces built so far
ErrReturn(fs, err) == [NoReturn EXCEPT !.err = err]


(***************************************************************************)
(* The parser is idle under Spec, the route builder under SpecParse.       *)
(***************************************************************************)
ParseIdle ==
    /\ doc = <<>> /\ ppc = "off" /\ subsets = <<>> /\ rules = <<>>
    /\ ri = 0 /\ pfonts = <<>> /\ pret = NoReturn

NoSrc == [url |-> <<>>, token |-> <<>>, shape |-> "none"]
NoSrcReturn == [url |-> <<>>, format |-> <<>>, err |-> [msg |-> "none"]]

SrcIdle == sarg = NoSrc /\ spc = "off" /\ sret = NoSrcReturn

ClientIdle ==
    /\ cl = <<>> /\ inits = 0 /\ ncalls = 0 /\ firstInitErr = "off" /\ last = <<>>

ConcIdle ==
    /\ gin = <<>> /\ gpc = <<>> /\ gfamilies = <<>> /\ gkeys = <<>> /\ gfi = <<>>
    /\ gpairs = <<>> /\ gbuf = <<>> /\ groutes = <<>> /\ gcalls = <<>> /\ gresult = <<>>

BuildIdle ==
    /\ prefix = <<>> /\ fonts = <<>> /\ pc = "off" /\ families = EmptyMap
    /\ familyKeys = <<>> /\ fi = 0 /\ calls = <<>> /\ result = "none"
    /\ run = 1 /\ first = NoFirst

(***************************************************************************)
(* Spec: BuildRoutes                                                       *)
(***************************************************************************)
Init ==
    /\ prefix \in Prefixes
    /\ fonts \in SeqsUpTo(FacePool, MaxFonts)
    /\ pc = "idle"
    /\ families = EmptyMap
    /\ familyKeys = <<>>
    /\ fi = 0
    /\ calls = <<>>
    /\ result = "none"
    /\ run = 1
    /\ first = NoFirst
    /\ ParseIdle /\ SrcIdle /\ ConcIdle /\ ClientIdle

\* BuildRoutes is called: lines 16-32
Invoke ==
    /\ pc = "idle"
    /\ LET m == ArrangeLoop(fonts, NewFamilies)
       IN  /\ families' = m
           /\ \E order \in RangeOrders(DOMAIN m) : familyKeys' = SortStrings(order)
    /\ fi' = 0
    /\ calls' = <<>>
    /\ result' = "none"
    /\ pc' = "loop"
    /\ UNCHANGED <<prefix, fonts, run, first>>
    /\ UNCHANGED <<pvars, svars, gvars, kvars>>

\* one iteration of the loop at line 34 in which the handler returns nil
Iterate ==
    /\ pc = "loop"
    /\ fi < Len(familyKeys)
    /\ LET family == familyKeys[fi + 1]
       IN  \E styleOrder \in RangeOrders(DOMAIN families[family]) :
           \E weightOrder \in WeightOrders(families[family]) :
              LET out == FamilyBody(prefix, family, styleOrder, weightOrder, families)
              IN  calls' = Append(calls, [family |-> family, css |-> out.buf,
                                          routes |-> out.routes, ret |-> "nil"])
    /\ fi' = fi + 1
    /\ UNCHANGED <<prefix, fonts, pc, families, familyKeys, result, run, first>>
    /\ UNCHANGED <<pvars, svars, gvars, kvars>>

\* one iteration of the loop at line 34 in which the handler returns an
\* error: BuildRoutes returns it (lines 62-64)
IterateErr ==
    /\ pc = "loop"
    /\ fi < Len(familyKeys)
    /\ \E err \in SinkErrors :
          /\ LET family == familyKeys[fi + 1]
             IN  \E styleOrder \in RangeOrders(DOMAIN families[family]) :
                 \E weightOrder \in WeightOrders(families[family]) :
                    LET out == FamilyBody(prefix, family, styleOrder, weightOrder, families)
                    IN  calls' = Append(calls, [family |-> family, css |-> out.buf,
                                                routes |-> out.routes, ret |-> err])
          /\ result' = HandlerError(err)
    /\ pc' = "done"
    /\ UNCHANGED <<prefix, fonts, families, familyKeys, fi, run, first>>
    /\ UNCHANGED <<pvars, svars, gvars, kvars>>

\* the loop at line 34 is over: return nil (line 66)
Return ==
    /\ pc = "loop"
    /\ fi = Len(familyKeys)
    /\ result' = "nil"
    /\ pc' = "done"
    /\ UNCHANGED <<prefix, fonts, families, familyKeys, fi, calls, run, first>>
    /\ UNCHANGED <<pvars, svars, gvars, kvars>>

\* the caller, whose first call returned nil, calls BuildRoutes a second
\* time with the same prefix
InvokeAgain ==
    /\ pc = "done"
    /\ run = 1
    /\ result = "nil"
    /\ first' = [fonts |-> fonts, calls |-> calls, result |-> result]
    /\ fonts' \in Reorderings(fonts)
    /\ run' = 2
    /\ pc' = "idle"
    /\ calls' = <<>>
    /\ result' = "none"
    /\ UNCHANGED <<prefix, families, familyKeys, fi>>
    /\ UNCHANGED <<pvars, svars, gvars, kvars>>

Next == Invoke \/ Iterate \/ IterateErr \/ Return \/ InvokeAgain

Spec == Init /\ [][Next]_vars

(***************************************************************************)
(* SpecParse: FontsFromStylesheetReader                                    *)
(***************************************************************************)
InitParse ==
    /\ doc \in SeqsUpTo(ItemPool, MaxItems)
    /\ ppc = "start"
    /\ subsets = <<>>
    /\ rules = <<>>
    /\ ri = 0
    /\ pfonts = <<>>
    /\ pret = NoReturn
    /\ BuildIdle /\ SrcIdle /\ ConcIdle /\ ClientIdle

\* lines 32-41: the text is read, the subsets found, the rules parsed
Load ==
    /\ ppc = "start"
    /\ subsets' = FindSubsets(doc)
    /\ rules' = CSSRuleList(doc)
    /\ pfonts' = <<>>
    /\ ri' = 0
    /\ ppc' = "rules"
    /\ UNCHANGED <<doc, pret>>
    /\ UNCHANGED <<bvars, svars, gvars, kvars>>

\* lines 32-35: ioutil.ReadAll fails
ReadFail ==
    /\ ppc = "start"
    /\ pret' = [NoReturn EXCEPT !.err = Errorf("read", <<>>)]
    /\ ppc' = "returned"
    /\ UNCHANGED <<doc, subsets, rules, ri, pfonts>>
    /\ UNCHANGED <<bvars, svars, gvars, kvars>>

\* lines 43-45: a rule that is no @font-face rule is passed over
SkipRule ==
    /\ ppc = "rules"
    /\ ri < Len(rules)
    /\ rules[ri + 1].Type # "FONT_FACE_RULE"
    /\ ri' = ri + 1
    /\ UNCHANGED <<doc, ppc, subsets, rules, pfonts, pret>>
    /\ UNCHANGED <<bvars, svars, gvars, kvars>>

\* lines 46-79: a face is built from an @font-face rule and appended
FontFaceRule ==
    /\ ppc = "rules"
    /\ ri < Len(rules)
    /\ rules[ri + 1].Type = "FONT_FACE_RULE"
    /\ \E r \in {BuildFont(subsets, rules, ri)} :
          /\ r.kind = "ok"
          /\ pfonts' = Append(pfonts, r.font)
    /\ ri' = ri + 1
    /\ UNCHANGED <<doc, ppc, subsets, rules, pret>>
    /\ UNCHANGED <<bvars, svars, gvars, kvars>>

\* lines 64-68: the src of an @font-face rule is refused: return nil, err
FontFaceRuleErr ==
    /\ ppc = "rules"
    /\ ri < Len(rules)
    /\ rules[ri + 1].Type = "FONT_FACE_RULE"
    /\ \E r \in {BuildFont(subsets, rules, ri)} :
          /\ r.kind = "return"
          /\ pret' = ErrReturn(pfonts, r.err)
    /\ ppc' = "returned"
    /\ UNCHANGED <<doc, subsets, rules, ri, pfonts>>
    /\ UNCHANGED <<bvars, svars, gvars, kvars>>

\* lines 55 and 75: the call panics
FontFaceRulePanic ==
    /\ ppc = "rules"
    /\ ri < Len(rules)
    /\ rules[ri + 1].Type = "FONT_FACE_RULE"
    /\ \E r \in {BuildFont(subsets, rules, ri)} :
          /\ r.kind = "panic"
          /\ pret' = [NoReturn EXCEPT !.panic = r.value]
    /\ ppc' = "panicked"
    /\ UNCHANGED <<doc, subsets, rules, ri, pfonts>>
    /\ UNCHANGED <<bvars, svars, gvars, kvars>>

\* line 81: return fonts, nil
ReturnFonts ==
    /\ ppc = "rules"
    /\ ri = Len(rules)
    /\ pret' = [NoReturn EXCEPT !.fonts = pfonts]
    /\ ppc' = "returned"
    /\ UNCHANGED <<doc, subsets, rules, ri, pfonts>>
    /\ UNCHANGED <<bvars, svars, gvars, kvars>>

NextParse ==
    Load \/ ReadFail \/ SkipRule \/ FontFaceRule \/ FontFaceRuleErr
        \/ FontFaceRulePanic \/ ReturnFonts

SpecParse == InitParse /\ [][NextParse]_vars

(***************************************************************************)
(* SpecSrc: parseSrcAndFormat on the text of one src declaration.  The     *)
(* text is made of a url, a format token (or none) and a shape.            *)
(***************************************************************************)
u_woff2 == <<104, 116, 116, 112, 115, 58, 47, 47, 120, 47, 121, 47, 102, 111, 110, 116, 46, 119, 111, 102, 102, 50>>  \* "https://x/y/font.woff2"
u_noext == <<104, 116, 116, 112, 115, 58, 47, 47, 120, 47, 121, 47, 102, 111, 110, 116>>  \* "https://x/y/font"
u_upper == <<104, 116, 116, 112, 115, 58, 47, 47, 120, 47, 70, 46, 87, 79, 70, 70, 63, 118, 61, 49, 46, 50, 35, 97, 46, 98>>  \* "https://x/F.WOFF?v=1.2#a.b"
u_dotdir == <<104, 116, 116, 112, 115, 58, 47, 47, 120, 47, 97, 46, 98, 47, 102, 111, 110, 116>>  \* "https://x/a.b/font"
u_enddot == <<104, 116, 116, 112, 115, 58, 47, 47, 120, 47, 102, 46>>  \* "https://x/f."
u_rel == <<102, 111, 110, 116, 46, 116, 116, 102>>  \* "font.ttf"
u_host == <<104, 116, 116, 112, 115, 58, 47, 47, 120, 46, 121>>  \* "https://x.y"
u_eot == <<104, 116, 116, 112, 115, 58, 47, 47, 120, 47, 100, 46, 101, 111, 116>>  \* "https://x/d.eot"
u_noscheme == <<58, 120>>  \* ":x"
u_slash == <<104, 116, 116, 112, 115, 58, 47, 47, 120, 47, 121, 46, 115, 118, 103, 47>>  \* "https://x/y.svg/"
t_truetype == <<116, 114, 117, 101, 116, 121, 112, 101>>  \* "truetype"
t_woff2 == <<119, 111, 102, 102, 50>>  \* "woff2"
t_WOFF == <<87, 79, 70, 70>>  \* "WOFF"

SrcUrls ==
    { u_woff2, u_noext, u_upper, u_dotdir, u_enddot, u_rel, u_host, u_eot,
      u_noscheme, u_slash }
SrcTokens == { <<>>, t_truetype, t_woff2, t_WOFF }
SrcShapes == { "single", "two lines", "bare", "trailing" }

\* url(u), followed by format('t') when there is a token
UrlEntry(u, t) ==
    lit_url \o u \o <<41>>
        \o (IF t = <<>> THEN <<>> ELSE <<32>> \o lit_format \o t \o lit_close)

\* the text of the src declaration made of the parts a
SrcText(a) ==
    CASE a.shape = "single" -> UrlEntry(a.url, a.token)
      [] a.shape = "two lines" -> UrlEntry(a.url, a.token) \o <<10>> \o UrlEntry(a.url, a.token)
      [] a.shape = "bare" -> a.url
      [] a.shape = "trailing" -> UrlEntry(a.url, a.token) \o <<32, 120>>

InitSrc ==
    /\ sarg \in [url : SrcUrls, token : SrcTokens, shape : SrcShapes]
    /\ spc = "call"
    /\ sret = NoSrcReturn
    /\ BuildIdle /\ ParseIdle /\ ConcIdle /\ ClientIdle

\* the call of parseSrcAndFormat (font.go:88-104) returns
ParseSrc ==
    /\ spc = "call"
    /\ sret' = parseSrcAndFormat(SrcText(sarg))
    /\ spc' = "done"
    /\ UNCHANGED <<sarg, bvars, pvars, gvars, kvars>>

NextSrc == ParseSrc

SpecSrc == InitSrc /\ [][NextSrc]_vars

(***************************************************************************)
(* SpecConc: two goroutines call BuildRoutes at the same time, each with   *)
(* its own prefix, list of faces and sink.  families, familyKeys, buf and  *)
(* routes are locals of the call (route.go:16, 28, 41, 42); the package    *)
(* level template tpl (route.go:115) is only read.  The steps of a call    *)
(* are: arrange and sort (lines 16-32), start a family (35-42), process    *)
(* one (style, weight) group (54-58), call the sink (62), return.          *)
(***************************************************************************)
Goroutines == {1, 2}

\* the faces the concurrent calls are given
ConcPool ==
    { Font(<<>>, fam_A, sty_normal, w_400, <<>>, <<>>, url_1, fmt_woff2, <<>>),
      Font(<<>>, fam_A, sty_normal, w_700, d_swap, <<>>, url_2, fmt_woff2, <<>>),
      Font(<<>>, fam_a, sty_normal, w_1000, <<>>, <<>>, url_5, fmt_eot, <<>>) }

\* the prefix each goroutine passes
ConcPrefix(g) == IF g = 1 THEN <<>> ELSE pfx

\* the keys S of a map, sorted (lines 28-32, 36-40, 46-50)
SortedKeys(S) == SortStrings(CHOOSE order \in RangeOrders(S) : TRUE)

\* the (style, weight) pairs of a family in the order the loops at lines
\* 44-60 come to them
RECURSIVE PairsLoop(_, _)
PairsLoop(styleKeys, fam) ==
    IF styleKeys = <<>> THEN <<>>
    ELSE [k \in DOMAIN SortedKeys(DOMAIN fam[Head(styleKeys)]) |->
            <<Head(styleKeys), SortedKeys(DOMAIN fam[Head(styleKeys)])[k]>>]
         \o PairsLoop(Tail(styleKeys), fam)

\* a bug: buf is a package-level buffer that every call writes to
BufOwner_shared(g) == 1

\* the buffer goroutine g writes to: its own (buf := new(bytes.Buffer),
\* route.go:41)
BufOwner(g) == g

\* what the sink of a call returns to its n-th call
SinkReturn(in, n) == IF n = in.failAt THEN "errA" ELSE "nil"

InitConc ==
    /\ gin \in [Goroutines -> [fonts : SeqsUpTo(ConcPool, MaxConcFonts), failAt : {0, 1}]]
    /\ gin[1].failAt = 0
    /\ gpc = [g \in Goroutines |-> "idle"]
    /\ gfamilies = [g \in Goroutines |-> EmptyMap]
    /\ gkeys = [g \in Goroutines |-> <<>>]
    /\ gfi = [g \in Goroutines |-> 0]
    /\ gpairs = [g \in Goroutines |-> <<>>]
    /\ gbuf = [g \in Goroutines |-> <<>>]
    /\ groutes = [g \in Goroutines |-> <<>>]
    /\ gcalls = [g \in Goroutines |-> <<>>]
    /\ gresult = [g \in Goroutines |-> "none"]
    /\ BuildIdle /\ ParseIdle /\ SrcIdle /\ ClientIdle

\* lines 16-32
GArrange(g) ==
    /\ gpc[g] = "idle"
    /\ gfamilies' = [gfamilies EXCEPT ![g] = ArrangeLoop(gin[g].fonts, NewFamilies)]
    /\ gkeys' = [gkeys EXCEPT ![g] = SortedKeys(DOMAIN ArrangeLoop(gin[g].fonts, NewFamilies))]
    /\ gpc' = [gpc EXCEPT ![g] = "family"]
    /\ UNCHANGED <<gin, gfi, gpairs, gbuf, groutes, gcalls, gresult>>
    /\ UNCHANGED <<bvars, pvars, svars, kvars>>

\* lines 34-42: the next family; its styles are sorted, buf and routes made
GBeginFamily(g) ==
    /\ gpc[g] = "family"
    /\ gfi[g] < Len(gkeys[g])
    /\ gpairs' = [gpairs EXCEPT ![g] =
                    PairsLoop(SortedKeys(DOMAIN gfamilies[g][gkeys[g][gfi[g] + 1]]),
                              gfamilies[g][gkeys[g][gfi[g] + 1]])]
    /\ gbuf' = [gbuf EXCEPT ![BufOwner(g)] = NewBuffer]
    /\ groutes' = [groutes EXCEPT ![g] = <<>>]
    /\ gpc' = [gpc EXCEPT ![g] = "groups"]
    /\ UNCHANGED <<gin, gfamilies, gkeys, gfi, gcalls, gresult>>
    /\ UNCHANGED <<bvars, pvars, svars, kvars>>

\* lines 54-58: process writes the block of the next group to buf and
\* returns its routes
GProcess(g) ==
    /\ gpc[g] = "groups"
    /\ gpairs[g] # <<>>
    /\ \E r \in {process(ConcPrefix(g), gkeys[g][gfi[g] + 1],
                         gpairs[g][1][1], gpairs[g][1][2], gfamilies[g])} :
          /\ gbuf' = [gbuf EXCEPT ![BufOwner(g)] = Append(gbuf[BufOwner(g)], r.block)]
          /\ groutes' = [groutes EXCEPT ![g] = groutes[g] \o r.routes]
    /\ gpairs' = [gpairs EXCEPT ![g] = Tail(gpairs[g])]
    /\ UNCHANGED <<gin, gpc, gfamilies, gkeys, gfi, gcalls, gresult>>
    /\ UNCHANGED <<bvars, pvars, svars, kvars>>

\* lines 62-64: the sink is called; its error ends the call
GCallSink(g) ==
    /\ gpc[g] = "groups"
    /\ gpairs[g] = <<>>
    /\ \E ret \in {SinkReturn(gin[g], Len(gcalls[g]) + 1)} :
          /\ gcalls' = [gcalls EXCEPT ![g] =
                          Append(gcalls[g], [family |-> gkeys[g][gfi[g] + 1],
                                             css |-> gbuf[BufOwner(g)],
                                             routes |-> groutes[g], ret |-> ret])]
          /\ gresult' = [gresult EXCEPT ![g] = IF ret = "nil" THEN "none" ELSE HandlerError(ret)]
          /\ gpc' = [gpc EXCEPT ![g] = IF ret = "nil" THEN "family" ELSE "done"]
          /\ gfi' = [gfi EXCEPT ![g] = IF ret = "nil" THEN gfi[g] + 1 ELSE gfi[g]]
    /\ UNCHANGED <<gin, gfamilies, gkeys, gpairs, gbuf, groutes>>
    /\ UNCHANGED <<bvars, pvars, svars, kvars>>

\* line 66
GReturn(g) ==
    /\ gpc[g] = "family"
    /\ gfi[g] = Len(gkeys[g])
    /\ gresult' = [gresult EXCEPT ![g] = "nil"]
    /\ gpc' = [gpc EXCEPT ![g] = "done"]
    /\ UNCHANGED <<gin, gfamilies, gkeys, gfi, gpairs, gbuf, groutes, gcalls>>
    /\ UNCHANGED <<bvars, pvars, svars, kvars>>

NextConc ==
    \E g \in Goroutines :
        GArrange(g) \/ GBeginFamily(g) \/ GProcess(g) \/ GCallSink(g) \/ GReturn(g)

SpecConc == InitConc /\ [][NextConc]_vars

(***************************************************************************)
(* SpecClient: one Client (client.go) and a sequence of calls of Faces,    *)
(* All, Format and Available on it.  A call is one step.  What the network *)
(* and the libraries answer is chosen in every call: whether               *)
(* diskcache.New, verhist.UserAgent and gfonts.NewService fail, what the   *)
(* http client returns for a stylesheet request, what the parser makes of  *)
(* the body, and whether listing the webfonts fails.                       *)
(***************************************************************************)
UserAgentEOT == "Mozilla/4.0 (compatible; MSIE 8.0; Windows NT 6.1; Trident/4.0)"
UserAgentSVG == "Mozilla/4.0 (iPad; CPU OS 4_0_1 like Mac OS X) AppleWebKit/534.46 (KHTML, like Gecko) Version/4.1 Mobile/9A405 Safari/7534.48.3"
UserAgentTTF == "Mozilla/5.0 (Unknown; Linux x86_64) AppleWebKit/538.1 (KHTML, like Gecko) Safari/538.1 Daum/4.1"
UserAgentWOFF2 == "Mozilla/5.0 (Windows NT 6.1; WOW64; rv:40.0) Gecko/20100101 Firefox/40.0"
UserAgentWOFF == "Mozilla/5.0 (Windows NT 6.1; WOW64; rv:27.0) Gecko/20100101 Firefox/27.0"
\* a user agent verhist.UserAgent builds
UserAgentVerhist == "Mozilla/5.0 (X11; Linux x86_64) AppleWebKit/537.36 (KHTML, like Gecko) Chrome/120.0.0.0 Safari/537.36"
\* a user agent given with the query option WithUserAgent
UserAgentQuery == "curl/8"

ErrServiceUninitialized == "service uninitialized"
ErrClientUninitialized == "client uninitialized"
ErrStatusNotOK == "status not ok"
ErrFormatNotAvailable == "format not available"

\* NewClient with or without WithAppCacheDir  (client.go:39-47)
NewClient(appCacheDir) ==
    [appCacheDir |-> appCacheDir, userAgent |-> "", cl |-> "nil", svc |-> "nil",
     once |-> FALSE]

\* what the libraries answer during initialisation
InitEnvs == [cache : {"nil", "errCache"}, verhist : {"nil", "errVerhist"},
             service : {"nil", "errService"}]

\* buildTransport  (client.go:67-85)
buildTransport(c, e) ==
    IF c.appCacheDir # "" /\ e.cache # "nil"
    THEN [c |-> c, err |-> e.cache]
    ELSE [c |-> [c EXCEPT !.cl = "client"], err |-> "nil"]

\* buildUserAgent  (client.go:88-96); with an error verhist.UserAgent
\* returns the empty string
buildUserAgent(c, e) ==
    IF c.userAgent # ""
    THEN [c |-> c, err |-> "nil"]
    ELSE [c |-> [c EXCEPT !.userAgent = IF e.verhist = "nil" THEN UserAgentVerhist ELSE ""],
          err |-> e.verhist]

\* buildService  (client.go:99-123); with an error gfonts.NewService
\* returns nil
buildService(c, e) ==
    IF c.svc # "nil"
    THEN [c |-> c, err |-> "nil"]
    ELSE [c |-> [c EXCEPT !.svc = IF e.service = "nil" THEN "service" ELSE "nil"],
          err |-> e.service]

\* the function given to once.Do  (client.go:51-61)
OnceBody(c, e) ==
    Only({ IF t.err # "nil" THEN t
           ELSE Only({ IF u.err # "nil" THEN u ELSE buildService(u.c, e)
                       : u \in {buildUserAgent(t.c, e)} })
           : t \in {buildTransport(c, e)} })

\* init  (client.go:49-64): err is a local of the call, and once.Do runs
\* its function in the first call only
init(c, e) ==
    IF c.once
    THEN [c |-> c, err |-> "nil", ran |-> FALSE]
    ELSE Only({ [c |-> [r.c EXCEPT !.once = TRUE], err |-> r.err, ran |-> TRUE]
                : r \in {OnceBody(c, e)} })

\* the faces a stylesheet answer parses to
face_woff2 == Font(<<>>, fam_A, sty_normal, w_400, <<>>, <<>>, url_1, fmt_woff2, <<>>)
face_eot == Font(<<>>, fam_A, sty_normal, w_400, <<>>, <<>>, url_5, fmt_eot, <<>>)
face_otf == Font(<<>>, fam_A, sty_normal, w_400, <<>>, <<>>, url_7, fmt_otf, <<>>)

\* what cl.cl.Do and FontsFromStylesheetReader answer to one request: an
\* error of the transport, a status, and the parser's result for the body
GetEnvs ==
    { [doErr |-> "errNet", status |-> 0, fonts |-> <<>>, parseErr |-> "nil"],
      [doErr |-> "nil", status |-> 404, fonts |-> <<>>, parseErr |-> "nil"],
      [doErr |-> "nil", status |-> 200, fonts |-> <<>>, parseErr |-> "invalid src"],
      [doErr |-> "nil", status |-> 200, fonts |-> <<>>, parseErr |-> "nil"],
      [doErr |-> "nil", status |-> 200, fonts |-> <<face_woff2>>, parseErr |-> "nil"],
      [doErr |-> "nil", status |-> 200, fonts |-> <<face_otf, face_eot>>, parseErr |-> "nil"] }

\* the answers chosen for the five requests of All
AllEnvs ==
    { [doErr |-> "nil", status |-> 404, fonts |-> <<>>, parseErr |-> "nil"],
      [doErr |-> "nil", status |-> 200, fonts |-> <<face_woff2>>, parseErr |-> "nil"] }

\* get  (client.go:148-168), given the answer g to its request
get(g) ==
    IF g.doErr # "nil" THEN [fonts |-> <<>>, err |-> g.doErr]
    ELSE IF g.status # 200 THEN [fonts |-> <<>>, err |-> ErrStatusNotOK]
    ELSE [fonts |-> g.fonts, err |-> g.parseErr]

\* what a call returned and did
CallRecord(op, format, fs, font, err, fetched, getErr, initErr) ==
    [op |-> op, format |-> format, fonts |-> fs, font |-> font, err |-> err,
     fetched |-> fetched, getErr |-> getErr, initErr |-> initErr]

\* before the first call
NoCall == CallRecord("none", <<>>, <<>>, ZeroFont, "none", <<>>, "none", "none")

\* Faces  (client.go:170-188); qua is the user agent of the query
FacesCall(i, qua, g) ==
    IF i.err # "nil"
    THEN CallRecord("Faces", <<>>, <<>>, ZeroFont, i.err, <<>>, "none", i.err)
    ELSE IF i.c.cl = "nil"
    THEN CallRecord("Faces", <<>>, <<>>, ZeroFont, ErrClientUninitialized, <<>>, "none", i.err)
    ELSE CallRecord("Faces", <<>>, get(g).fonts, ZeroFont, get(g).err,
                    << IF qua # "" THEN qua ELSE i.c.userAgent >>, get(g).err, i.err)

\* the user agents of All in their order  (client.go:203-209)
AllUserAgents == <<UserAgentEOT, UserAgentSVG, UserAgentTTF, UserAgentWOFF2, UserAgentWOFF>>

\* the loop of All  (client.go:203-215): gs are the answers to its requests
RECURSIVE AllLoop(_, _, _)
AllLoop(k, gs, acc) ==
    IF k > Len(AllUserAgents) THEN acc
    ELSE IF get(gs[k]).err # "nil"
    THEN [fonts |-> <<>>, err |-> get(gs[k]).err,
          fetched |-> Append(acc.fetched, AllUserAgents[k])]
    ELSE AllLoop(k + 1, gs, [fonts |-> acc.fonts \o get(gs[k]).fonts, err |-> "nil",
                             fetched |-> Append(acc.fetched, AllUserAgents[k])])

\* All  (client.go:192-216)
AllCall(i, gs) ==
    IF i.err # "nil"
    THEN CallRecord("All", <<>>, <<>>, ZeroFont, i.err, <<>>, "none", i.err)
    ELSE IF i.c.cl = "nil"
    THEN CallRecord("All", <<>>, <<>>, ZeroFont, ErrClientUninitialized, <<>>, "none", i.err)
    ELSE Only({ CallRecord("All", <<>>, r.fonts, ZeroFont, r.err, r.fetched, r.err, i.err)
                : r \in {AllLoop(1, gs, [fonts |-> <<>>, err |-> "nil", fetched |-> <<>>])} })

\* the switch of Format  (client.go:228-241); "" for the default case
FormatUserAgent(format) ==
    IF format = fmt_eot THEN UserAgentEOT
    ELSE IF format = fmt_svg THEN UserAgentSVG
    ELSE IF format = fmt_ttf THEN UserAgentTTF
    ELSE IF format = fmt_woff2 THEN UserAgentWOFF2
    ELSE IF format = fmt_woff THEN UserAgentWOFF
    ELSE ""

\* the loop of Format  (client.go:248-252): the first face of the format
FontOfFormat(fs, format) ==
    IF \E k \in DOMAIN fs : fs[k].Format = format
    THEN [font |-> fs[Min({ k \in DOMAIN fs : fs[k].Format = format })], err |-> "nil"]
    ELSE [font |-> ZeroFont, err |-> ErrFormatNotAvailable]

\* if err != nil { return Font{}, nil }  (client.go:245-247)
GetFailed(err) == [font |-> ZeroFont, err |-> "nil"]

\* Format  (client.go:219-254)
FormatCall(i, format, g) ==
    IF i.err # "nil"
    THEN CallRecord("Format", format, <<>>, ZeroFont, i.err, <<>>, "none", i.err)
    ELSE IF i.c.cl = "nil"
    THEN CallRecord("Format", format, <<>>, ZeroFont, ErrClientUninitialized, <<>>, "none", i.err)
    ELSE IF FormatUserAgent(format) = ""
    THEN CallRecord("Format", format, <<>>, ZeroFont, ErrFormatNotAvailable, <<>>, "none", i.err)
    ELSE IF get(g).err # "nil"
    THEN CallRecord("Format", format, <<>>, GetFailed(get(g).err).font, GetFailed(get(g).err).err,
                    <<FormatUserAgent(format)>>, get(g).err, i.err)
    ELSE CallRecord("Format", format, <<>>, FontOfFormat(get(g).fonts, format).font,
                    FontOfFormat(get(g).fonts, format).err,
                    <<FormatUserAgent(format)>>, "nil", i.err)

\* Available  (client.go:126-141); listErr is what listing the webfonts
\* returns
AvailableCall(i, listErr) ==
    IF i.err # "nil"
    THEN CallRecord("Available", <<>>, <<>>, ZeroFont, i.err, <<>>, "none", i.err)
    ELSE IF i.c.svc = "nil"
    THEN CallRecord("Available", <<>>, <<>>, ZeroFont, ErrServiceUninitialized, <<>>, "none", i.err)
    ELSE CallRecord("Available", <<>>, <<>>, ZeroFont, listErr, <<"service">>, listErr, i.err)

\* the formats Format is asked for
FormatNames == {fmt_eot, fmt_svg, fmt_ttf, fmt_woff2, fmt_woff, fmt_otf, <<>>}

InitClient ==
    /\ cl \in {NewClient(""), NewClient("cache")}
    /\ inits = 0
    /\ ncalls = 0
    /\ firstInitErr = "none"
    /\ last = NoCall
    /\ BuildIdle /\ ParseIdle /\ SrcIdle /\ ConcIdle

\* what every call does with the result i of init and its record r
Called(i, r) ==
    /\ cl' = i.c
    /\ inits' = IF i.ran THEN inits + 1 ELSE inits
    /\ ncalls' = ncalls + 1
    /\ firstInitErr' = IF ncalls = 0 THEN i.err ELSE firstInitErr
    /\ last' = r
    /\ UNCHANGED <<bvars, pvars, svars, gvars>>

Faces ==
    /\ ncalls < MaxCalls
    /\ \E e \in InitEnvs, qua \in {"", UserAgentQuery}, g \in GetEnvs :
          \E i \in {init(cl, e)} : Called(i, FacesCall(i, qua, g))

All ==
    /\ ncalls < MaxCalls
    /\ \E e \in InitEnvs, gs \in [1..5 -> AllEnvs] :
          \E i \in {init(cl, e)} : Called(i, AllCall(i, gs))

Format ==
    /\ ncalls < MaxCalls
    /\ \E e \in InitEnvs, format \in FormatNames, g \in GetEnvs :
          \E i \in {init(cl, e)} : Called(i, FormatCall(i, format, g))

Available ==
    /\ ncalls < MaxCalls
    /\ \E e \in InitEnvs, listErr \in {"nil", "errList"} :
          \E i \in {init(cl, e)} : Called(i, AvailableCall(i, listErr))

NextClient == Faces \/ All \/ Format \/ Available

SpecClient == InitClient /\ [][NextClient]_vars

(***************************************************************************)
(* Notions the properties are stated with.                                 *)
(***************************************************************************)
\* s sorts before t in lexicographic order of bytes
LexLess(s, t) ==
    \E k \in 1..Len(t) :
        /\ k <= Len(s) + 1
        /\ \A i \in 1..(k - 1) : s[i] = t[i]
        /\ (k = Len(s) + 1 \/ s[k] < t[k])

\* the distinct family strings of a list of faces
FamiliesOf(fs) == { fs[i].Family : i \in DOMAIN fs }

\* the value of declaration p of a rendered block
BlockVal(block, p) ==
    block[CHOOSE i \in DOMAIN block : block[i].prop = p].val

\* the (style, weight) pairs of the blocks of a stylesheet, in its order
BlockOrder(css) ==
    [i \in DOMAIN css |-> <<BlockVal(css[i], "font-style"), BlockVal(css[i], "font-weight")>>]

\* faces i and j of the list are of one (family, style, weight) group
SameGroup(fs, i, j) ==
    /\ fs[i].Family = fs[j].Family
    /\ fs[i].Style = fs[j].Style
    /\ fs[i].Weight = fs[j].Weight

\* face i is the first of its format in its group, in input order
FirstOfFormat(fs, i) ==
    ~ \E j \in 1..(i - 1) : SameGroup(fs, i, j) /\ fs[j].Format = fs[i].Format

\* the route identifier of a face: 7 hex characters of the md5 of its src,
\* ".", its format
IdentifierOf(font) == SubSeq(Md5Hex(font.Src), 1, 7) \o <<46>> \o font.Format

\* the invocation has returned
Returned == pc = "done"

(***************************************************************************)
(* C1.  BuildRoutes calls the sink once for each distinct family string of *)
(* the input (exact string equality), in lexicographically ascending order *)
(* of family name whatever the order of the input: the families called so  *)
(* far are strictly ascending and are families of the input, and when      *)
(* BuildRoutes returns nil every distinct family has been called.          *)
(***************************************************************************)
C1_OncePerFamilyAscending ==
    /\ \A i, j \in DOMAIN calls : i < j => LexLess(calls[i].family, calls[j].family)
    /\ \A i \in DOMAIN calls : calls[i].family \in FamiliesOf(fonts)
    /\ (Returned /\ result = "nil") =>
          { calls[i].family : i \in DOMAIN calls } = FamiliesOf(fonts)

\* three families, differing by case and by a trailing blank, given in
\* descending order and called in ascending order
C1_Witness ==
    /\ Returned /\ result = "nil" /\ run = 1
    /\ Len(fonts) = 3 /\ Len(calls) = 3
    /\ LexLess(fonts[3].Family, fonts[2].Family)
    /\ LexLess(fonts[2].Family, fonts[1].Family)

(***************************************************************************)
(* C2.  When the sink returns an error, BuildRoutes returns exactly that   *)
(* error value and calls the sink for no later family: no call follows a   *)
(* call that returned an error, and the calls made are a prefix of the     *)
(* ascending list of families.                                             *)
(***************************************************************************)
C2_SinkAbort ==
    /\ \A i \in DOMAIN calls : i < Len(calls) => calls[i].ret = "nil"
    /\ \A i \in DOMAIN calls :
          Cardinality({ f \in FamiliesOf(fonts) : LexLess(f, calls[i].family) }) = i - 1
    /\ \A i \in DOMAIN calls :
          calls[i].ret # "nil" => Returned /\ result = calls[i].ret
    /\ (Returned /\ result # "nil") =>
          calls # <<>> /\ result = calls[Len(calls)].ret

\* the sink fails on the second of three families
C2_Witness ==
    /\ Returned /\ result = "errB"
    /\ Len(calls) = 2
    /\ Cardinality(FamiliesOf(fonts)) = 3

(***************************************************************************)
(* C3, as claimed.  Every Route given to the sink has the path             *)
(* prefix + identifier and the url of the face it was made from.           *)
(***************************************************************************)
C3_RoutePathHasPrefix ==
    \A i \in DOMAIN calls : \A k \in DOMAIN calls[i].routes :
        \E n \in DOMAIN fonts :
            /\ fonts[n].Family = calls[i].family
            /\ calls[i].routes[k].URL = fonts[n].Src
            /\ calls[i].routes[k].Path = prefix \o IdentifierOf(fonts[n])

(***************************************************************************)
(* C3, amended.  Every Route given to the sink has the path equal to the   *)
(* identifier alone, without the prefix, and the url of the face it was    *)
(* made from; the stylesheet references prefix + Route.Path: every url of  *)
(* a src declaration of the family's stylesheet is the prefix followed by  *)
(* the path of one of the family's routes (followed by "?#iefix" in the    *)
(* embedded-opentype entry).                                               *)
(***************************************************************************)
C3_RoutePathIsIdentifier ==
    \A i \in DOMAIN calls :
        /\ \A k \in DOMAIN calls[i].routes :
              \E n \in DOMAIN fonts :
                  /\ fonts[n].Family = calls[i].family
                  /\ calls[i].routes[k].URL = fonts[n].Src
                  /\ calls[i].routes[k].Path = IdentifierOf(fonts[n])
        /\ \A b \in DOMAIN calls[i].css :
              LET src == BlockVal(calls[i].css[b], "src")
              IN  \A e \in DOMAIN src :
                      src[e].kind # "local" =>
                          \E k \in DOMAIN calls[i].routes :
                              src[e].url \in
                                  { prefix \o calls[i].routes[k].Path,
                                    prefix \o calls[i].routes[k].Path \o iefix }

\* a call with a non-empty prefix whose stylesheet references a route
C3_Witness ==
    /\ prefix # <<>>
    /\ \E i \in DOMAIN calls :
          /\ calls[i].routes # <<>>
          /\ \E b \in DOMAIN calls[i].css :
                Len(BlockVal(calls[i].css[b], "src")) > 1

(***************************************************************************)
(* C4.  Within every (family, style, weight) group the faces are           *)
(* deduplicated by format, the first in input order winning: the routes    *)
(* given to the sink for a family are, group after group, one route for    *)
(* each face that is the first of its format in its group, with that       *)
(* face's src as url; a later face of the same format gives no route.      *)
(***************************************************************************)
\* face a is routed before face b: by style, then weight, then input order
RoutedBefore(fs, a, b) ==
    \/ LexLess(fs[a].Style, fs[b].Style)
    \/ fs[a].Style = fs[b].Style /\ LexLess(fs[a].Weight, fs[b].Weight)
    \/ fs[a].Style = fs[b].Style /\ fs[a].Weight = fs[b].Weight /\ a < b

\* the faces of a family that are the first of their format in their group
Winners(fs, family) ==
    { n \in DOMAIN fs : fs[n].Family = family /\ FirstOfFormat(fs, n) }

C4_FirstOfFormatWins ==
    \A i \in DOMAIN calls :
        LET W == Winners(fonts, calls[i].family)
        IN  /\ Len(calls[i].routes) = Cardinality(W)
            /\ \A n \in W :
                  LET k == 1 + Cardinality({ m \in W : RoutedBefore(fonts, m, n) })
                  IN  calls[i].routes[k].URL = fonts[n].Src

\* a group holding two faces of one format with different src was routed
C4_Witness ==
    /\ Returned
    /\ \E a, b \in DOMAIN fonts :
          /\ a < b
          /\ SameGroup(fonts, a, b)
          /\ fonts[a].Format = fonts[b].Format
          /\ fonts[a].Src # fonts[b].Src
          /\ \E i \in DOMAIN calls :
                /\ calls[i].family = fonts[a].Family
                /\ \E k \in DOMAIN calls[i].routes : calls[i].routes[k].URL = fonts[a].Src
                /\ \A k \in DOMAIN calls[i].routes : calls[i].routes[k].URL # fonts[b].Src

(***************************************************************************)
(* C5.  The stylesheet given to the sink for a family holds exactly one    *)
(* @font-face block for each distinct (style, weight) pair of the family,  *)
(* in ascending order of style and, within a style, in ascending string    *)
(* (not numeric) order of weight, whatever the input order.                *)
(***************************************************************************)
\* the (style, weight) pairs of a family
PairsOf(fs, family) ==
    { <<fs[n].Style, fs[n].Weight>> : n \in { m \in DOMAIN fs : fs[m].Family = family } }

C5_BlockPerPairAscending ==
    \A i \in DOMAIN calls :
        LET bo == BlockOrder(calls[i].css)
        IN  /\ Len(bo) = Cardinality(PairsOf(fonts, calls[i].family))
            /\ \A b \in DOMAIN bo :
                  /\ bo[b] \in PairsOf(fonts, calls[i].family)
                  /\ BlockVal(calls[i].css[b], "font-family") = calls[i].family
            /\ \A a, b \in DOMAIN bo :
                  a < b => \/ LexLess(bo[a][1], bo[b][1])
                           \/ bo[a][1] = bo[b][1] /\ LexLess(bo[a][2], bo[b][2])

\* weight "200" given before weight "1000", and "1000" rendered first
C5_Witness ==
    /\ Len(fonts) >= 2
    /\ fonts[1].Weight = w_200
    /\ fonts[2].Weight = w_1000
    /\ \E i \in DOMAIN calls :
          BlockOrder(calls[i].css) = << <<sty_normal, w_1000>>, <<sty_normal, w_200>> >>

(***************************************************************************)
(* C6 and C7 compare the second invocation with the first.                 *)
(***************************************************************************)
\* the calls both invocations have made so far
CommonCalls == (DOMAIN calls) \cap (DOMAIN first.calls)

\* every route given to the sink by either invocation
RouteSet(cs) ==
    UNION { { cs[i].routes[k] : k \in DOMAIN cs[i].routes } : i \in DOMAIN cs }

AllRoutes == RouteSet(calls) \cup RouteSet(first.calls)

\* the second invocation, given the list of the first, makes the calls the
\* first made: the same families, stylesheets and routes, in the same order
TwoRunsAgree ==
    (run = 2 /\ fonts = first.fonts) =>
        /\ \A i \in CommonCalls :
              /\ calls[i].family = first.calls[i].family
              /\ calls[i].css = first.calls[i].css
              /\ calls[i].routes = first.calls[i].routes
        /\ Len(calls) <= Len(first.calls)
        /\ (Returned /\ result = "nil") => Len(calls) = Len(first.calls)

(***************************************************************************)
(* C6, as claimed.  Route identifiers are a function of src alone: two     *)
(* routes with the same url have the same path; and two invocations with   *)
(* the same prefix and list make the same calls of the sink.               *)
(***************************************************************************)
C6_IdentifierFunctionOfSrc ==
    /\ \A r1, r2 \in AllRoutes : r1.URL = r2.URL => r1.Path = r2.Path
    /\ TwoRunsAgree

(***************************************************************************)
(* C6, amended.  Route identifiers are a function of src and format: the   *)
(* hash part (the first 7 characters) is a function of src alone, and the  *)
(* identifier is the hash part, ".", and the format of a face with that    *)
(* src, so faces with equal src and equal format get equal identifiers;    *)
(* and two invocations with the same prefix and list make the same calls   *)
(* of the sink, nothing being carried from the first to the second.        *)
(***************************************************************************)
C6_IdentifierFunctionOfSrcAndFormat ==
    /\ \A r1, r2 \in AllRoutes :
          r1.URL = r2.URL => SubSeq(r1.Path, 1, 7) = SubSeq(r2.Path, 1, 7)
    /\ \A r \in RouteSet(calls) :
          \E n \in DOMAIN fonts :
              /\ fonts[n].Src = r.URL
              /\ r.Path = SubSeq(r.Path, 1, 7) \o <<46>> \o fonts[n].Format
    /\ \A r1, r2 \in AllRoutes :
          (r1.URL = r2.URL /\ SubSeq(r1.Path, 8, Len(r1.Path)) = SubSeq(r2.Path, 8, Len(r2.Path)))
              => r1.Path = r2.Path
    /\ TwoRunsAgree

\* the second invocation, on the list of the first, has returned nil after
\* two calls at least, and one src was routed under two formats
C6_Witness ==
    /\ run = 2 /\ fonts = first.fonts
    /\ Returned /\ result = "nil"
    /\ Len(calls) >= 2
    /\ \E r1, r2 \in RouteSet(calls) : r1.URL = r2.URL /\ r1.Path # r2.Path

(***************************************************************************)
(* C7, as claimed.  Two invocations on lists holding the same faces in a   *)
(* different order give the same family order, the same block order in     *)
(* each family and the same route identifiers.                             *)
(***************************************************************************)
\* the route identifiers given to the sink in one call
PathsOf(call) == { call.routes[k].Path : k \in DOMAIN call.routes }

\* the calls of the second invocation name the families of the first, in
\* its order, with the blocks of each family in its order
SameFamilyAndBlockOrder ==
    /\ \A i \in CommonCalls :
          /\ calls[i].family = first.calls[i].family
          /\ BlockOrder(calls[i].css) = BlockOrder(first.calls[i].css)
    /\ Len(calls) <= Len(first.calls)
    /\ (Returned /\ result = "nil") => Len(calls) = Len(first.calls)

C7_OrderInsensitive ==
    run = 2 =>
        /\ SameFamilyAndBlockOrder
        /\ \A i \in CommonCalls : PathsOf(calls[i]) = PathsOf(first.calls[i])

(***************************************************************************)
(* C7, amended.  Two invocations on lists holding the same faces in a      *)
(* different order give the same family order and the same block order in  *)
(* each family; they give the same route identifiers for every family in   *)
(* which no group holds two faces of one format with different src (in     *)
(* such a group the face that comes first in the list decides the route).  *)
(***************************************************************************)
\* no group of the family holds two faces of one format with different src
NoFormatClash(fs, family) ==
    \A a, b \in DOMAIN fs :
        (fs[a].Family = family /\ SameGroup(fs, a, b) /\ fs[a].Format = fs[b].Format)
            => fs[a].Src = fs[b].Src

C7_OrderInsensitiveButFirstWins ==
    run = 2 =>
        /\ SameFamilyAndBlockOrder
        /\ \A i \in CommonCalls :
              NoFormatClash(fonts, calls[i].family)
                  => PathsOf(calls[i]) = PathsOf(first.calls[i])

\* the second invocation, on a reordering of the list of the first, has
\* returned nil after two calls at least, one of them with two blocks
C7_Witness ==
    /\ run = 2 /\ fonts # first.fonts
    /\ Returned /\ result = "nil"
    /\ Len(calls) >= 2
    /\ \E i \in DOMAIN calls :
          /\ Len(calls[i].css) >= 2
          /\ calls[i].routes # <<>>
          /\ NoFormatClash(fonts, calls[i].family)

(***************************************************************************)
(* Notions the properties of the parser are stated with.                   *)
(***************************************************************************)
\* the @font-face rules of a document, in document order
FontFaceRules(d) ==
    SelectSeq(d, LAMBDA item : item.kind = "rule" /\ item.Type = "FONT_FACE_RULE")

\* the subset markers of a document, in document order
Markers(d) == FindSubsets(d)

\* the value a rule declares for a property, the empty string without one
Declared(rule, property) ==
    IF \E k \in DOMAIN rule.Styles : rule.Styles[k].Property = property
    THEN rule.Styles[Max({ k \in DOMAIN rule.Styles :
                              rule.Styles[k].Property = property })].Value
    ELSE <<>>

\* the parse has returned its records and a nil error
ParsedOk == ppc = "returned" /\ pret.err = NilErr

\* the properties an @font-face rule may hold
AllowList ==
    { "font-family", "font-style", "font-weight", "font-display",
      "font-stretch", "src", "unicode-range" }

\* the declarations of a rule with a property outside the allow-list, and
\* those whose src is refused
UnknownAt(rule) ==
    { k \in DOMAIN rule.Styles : rule.Styles[k].Property \notin AllowList }
RefusedAt(rule) ==
    { k \in DOMAIN rule.Styles :
        /\ rule.Styles[k].Property = "src"
        /\ parseSrcAndFormat(rule.Styles[k].Value).err # NilErr }

\* the first declaration of the rule that the parser does not accept is
\* one with a property outside the allow-list
StopsAtUnknown(rule) ==
    /\ rule.Type = "FONT_FACE_RULE"
    /\ UnknownAt(rule) # {}
    /\ \A k \in RefusedAt(rule) : k > Min(UnknownAt(rule))

\* the parse has ended at a rule, which it did not pass
EndedAtRule == ppc \in {"returned", "panicked"} /\ ri < Len(rules)

(***************************************************************************)
(* C8.  A successful parse of a stylesheet with K @font-face rules returns *)
(* exactly K face records in document order (the i-th record carries what  *)
(* the i-th @font-face rule declares), and every returned record has a     *)
(* non-empty family, style, weight, src and format.                        *)
(* The parser does not check that a record is complete: a rule without     *)
(* font-style and font-weight, whose src names neither a file extension    *)
(* nor a format, yields a record with these fields empty and a nil error.  *)
(***************************************************************************)
C8_RecordsComplete ==
    ParsedOk =>
        /\ Len(pret.fonts) = Len(FontFaceRules(doc))
        /\ \A i \in DOMAIN pret.fonts :
              /\ pret.fonts[i].Style = Declared(FontFaceRules(doc)[i], "font-style")
              /\ pret.fonts[i].Weight = Declared(FontFaceRules(doc)[i], "font-weight")
              /\ pret.fonts[i].Family # <<>>
              /\ pret.fonts[i].Style # <<>>
              /\ pret.fonts[i].Weight # <<>>
              /\ pret.fonts[i].Src # <<>>
              /\ pret.fonts[i].Format # <<>>

\* a successful parse has returned a record for every @font-face rule, one
\* of them with a src and without style, weight and format
C8_Witness ==
    /\ ParsedOk
    /\ Len(pret.fonts) = Len(FontFaceRules(doc))
    /\ \E i \in DOMAIN pret.fonts :
          /\ pret.fonts[i].Src # <<>>
          /\ pret.fonts[i].Style = <<>>
          /\ pret.fonts[i].Weight = <<>>
          /\ pret.fonts[i].Format = <<>>

(***************************************************************************)
(* C9.  Subset pairing is positional over the @font-face rules: after a    *)
(* successful parse of a text with N subset markers, the record of the     *)
(* i-th @font-face rule (counted from 0 over the @font-face rules only)    *)
(* has the token of the i-th marker as its subset when i < N and the empty *)
(* subset otherwise, whatever other rules the text holds.                  *)
(* The parser pairs by the index of the rule among all the rules, so a     *)
(* rule of another kind before an @font-face rule shifts the pairing.      *)
(***************************************************************************)
C9_SubsetByFontFaceOrder ==
    ParsedOk =>
        \A i \in DOMAIN pret.fonts :
            pret.fonts[i].Subset =
                IF i <= Len(Markers(doc)) THEN Markers(doc)[i].token ELSE <<>>

\* a successful parse of a text in which a rule of another kind comes
\* before an @font-face rule has returned a record whose subset is not the
\* token of the marker at its place among the @font-face rules
C9_Witness ==
    /\ ParsedOk
    /\ \E n \in DOMAIN rules : rules[n].Type # "FONT_FACE_RULE"
    /\ \E i \in DOMAIN pret.fonts :
          /\ i <= Len(Markers(doc))
          /\ pret.fonts[i].Subset # Markers(doc)[i].token

(***************************************************************************)
(* C10.  When the parse ends at an @font-face rule because of a property   *)
(* outside the allow-list, the call has returned to its caller, with no    *)
(* records and with an error that carries the name of the property.        *)
(* The parser panics (font.go:75) before the statement that returns the    *)
(* error (font.go:76), so the call does not return.                        *)
(***************************************************************************)
C10_UnknownPropertyReturnsError ==
    (EndedAtRule /\ StopsAtUnknown(rules[ri + 1])) =>
        /\ ppc = "returned"
        /\ pret.fonts = <<>>
        /\ pret.err = Errorf("unknown @font-face property",
                             rules[ri + 1].Styles[Min(UnknownAt(rules[ri + 1]))].Property)

\* the parse has ended in a panic at an @font-face rule whose first
\* declaration the parser does not accept has a property outside the
\* allow-list; the panic carries the name of the property
C10_Witness ==
    /\ EndedAtRule
    /\ StopsAtUnknown(rules[ri + 1])
    /\ ppc = "panicked"
    /\ pret.panic.arg = "ascent-override"

(***************************************************************************)
(* C11.  A src whose URL path has no file extension and which carries no   *)
(* format(...) token makes the resolution of the format fail, and the      *)
(* parse then returns an error: no parse of a stylesheet that holds such   *)
(* a src in an @font-face rule returns records and a nil error.            *)
(* parseSrcAndFormat returns the empty format with a nil error (font.go    *)
(* 99-103), so the parse succeeds with a record whose format is empty.     *)
(***************************************************************************)
\* the src value v is one url(...) whose path has no file extension, with
\* no format(...) token
Unresolved(v) ==
    LET m == SrcFindAll(v, 1)
    IN  /\ Len(m) = 1
        /\ m[1].format = <<>>
        /\ UrlParse(m[1].url).err = "nil"
        /\ TrimDot(PathExt(PathBase(UrlParse(m[1].url).Path))) = <<>>

\* the rule declares a src that is unresolved
HasUnresolvedSrc(rule) ==
    \E k \in DOMAIN rule.Styles :
        rule.Styles[k].Property = "src" /\ Unresolved(rule.Styles[k].Value)

C11_UnresolvedFormatFails ==
    ParsedOk =>
        \A i \in DOMAIN FontFaceRules(doc) : ~ HasUnresolvedSrc(FontFaceRules(doc)[i])

\* a parse has returned a nil error and, for a rule with an unresolved
\* src, a record with that src's url and the empty format
C11_Witness ==
    /\ ParsedOk
    /\ \E i \in DOMAIN pret.fonts :
          /\ HasUnresolvedSrc(FontFaceRules(doc)[i])
          /\ pret.fonts[i].Src = <<104, 116, 116, 112, 115, 58, 47, 47, 120, 47, 104>>
          /\ pret.fonts[i].Format = <<>>

(***************************************************************************)
(* C12.  A src that matches the url(...) pattern no time or more than once *)
(* fails with an "invalid src" error that carries the src, and the parse   *)
(* call then returns that error and no records, whatever records it had    *)
(* built from earlier rules; so no parse of a stylesheet that holds such a *)
(* src in an @font-face rule returns a nil error.                          *)
(***************************************************************************)
\* the declarations of a rule whose src does not match srcRE exactly once
InvalidSrcAt(rule) ==
    { k \in DOMAIN rule.Styles :
        /\ rule.Styles[k].Property = "src"
        /\ Len(SrcFindAll(rule.Styles[k].Value, 1)) # 1 }

\* the first declaration of the rule that the parser does not accept is a
\* src that does not match exactly once
StopsAtInvalidSrc(rule) ==
    /\ rule.Type = "FONT_FACE_RULE"
    /\ InvalidSrcAt(rule) # {}
    /\ \A k \in UnknownAt(rule) \cup RefusedAt(rule) : k >= Min(InvalidSrcAt(rule))

C12_InvalidSrcFailsWhole ==
    /\ (EndedAtRule /\ StopsAtInvalidSrc(rules[ri + 1])) =>
          /\ ppc = "returned"
          /\ pret.fonts = <<>>
          /\ pret.err = Errorf("invalid src",
                               rules[ri + 1].Styles[Min(InvalidSrcAt(rules[ri + 1]))].Value)
    /\ ParsedOk =>
          \A i \in DOMAIN FontFaceRules(doc) : InvalidSrcAt(FontFaceRules(doc)[i]) = {}

\* the parse has built a record from an earlier rule and then ended at a
\* rule whose src matches twice, returning the error and no record
C12_Witness ==
    /\ EndedAtRule
    /\ StopsAtInvalidSrc(rules[ri + 1])
    /\ \E k \in InvalidSrcAt(rules[ri + 1]) :
          Len(SrcFindAll(rules[ri + 1].Styles[k].Value, 1)) = 2
    /\ pfonts # <<>>
    /\ pret.fonts = <<>>
    /\ pret.err.msg = "invalid src"

(***************************************************************************)
(* C13.  Format resolution prefers the URL: for a src of one url(...), the *)
(* call returns the url token unchanged and, as the format, the lowercased *)
(* file extension of the URL path when the path has one (also when a       *)
(* format(...) token is present and differs), and the format(...) token    *)
(* when the path has none.                                                 *)
(***************************************************************************)
\* the file extension of the path of each url of SrcUrls, lowercased, as
\* net/url and path give it; u_noscheme is no URL
ExtensionOf(u) ==
    CASE u = u_woff2 -> fmt_woff2
      [] u = u_upper -> fmt_woff
      [] u = u_rel -> fmt_ttf
      [] u = u_eot -> fmt_eot
      [] u = u_slash -> fmt_svg
      [] OTHER -> <<>>

C13_FormatPrefersUrl ==
    (spc = "done" /\ sarg.shape = "single" /\ sarg.url # u_noscheme) =>
        /\ sret.err = NilErr
        /\ sret.url = sarg.url
        /\ sret.format = IF ExtensionOf(sarg.url) # <<>>
                         THEN ExtensionOf(sarg.url)
                         ELSE sarg.token

\* the call has returned the extension of the path, the src carrying a
\* format token that differs from it
C13_Witness ==
    /\ spc = "done"
    /\ sarg = [url |-> u_upper, token |-> t_truetype, shape |-> "single"]
    /\ sret = [url |-> u_upper, format |-> fmt_woff, err |-> NilErr]

(***************************************************************************)
(* C14 is about the font-display and font-stretch of a rendered block.     *)
(***************************************************************************)
\* the value of declaration p of a block, empty when the block has none
BlockValOrEmpty(block, p) ==
    IF \E i \in DOMAIN block : block[i].prop = p THEN BlockVal(block, p) ELSE <<>>

\* the faces of the group a block of a family is rendered for
GroupOfBlock(fs, family, block) ==
    { n \in DOMAIN fs :
        /\ fs[n].Family = family
        /\ fs[n].Style = BlockVal(block, "font-style")
        /\ fs[n].Weight = BlockVal(block, "font-weight") }

\* the first non-empty value of a field among the faces S, in input order
FirstValue(fs, S, field) ==
    IF \E n \in S : fs[n][field] # <<>>
    THEN fs[Min({ n \in S : fs[n][field] # <<>> })][field]
    ELSE <<>>

(***************************************************************************)
(* C14, as claimed.  The font-display (font-stretch) of a block is the     *)
(* first non-empty display (stretch) among all the faces of its group in   *)
(* input order, the faces ignored for routing included; it is omitted only *)
(* when every face of the group has it empty.                              *)
(***************************************************************************)
C14_DisplayFromGroup ==
    \A i \in DOMAIN calls : \A b \in DOMAIN calls[i].css :
        LET G == GroupOfBlock(fonts, calls[i].family, calls[i].css[b])
        IN  /\ BlockValOrEmpty(calls[i].css[b], "font-display") = FirstValue(fonts, G, "Display")
            /\ BlockValOrEmpty(calls[i].css[b], "font-stretch") = FirstValue(fonts, G, "Stretch")

(***************************************************************************)
(* C14, amended.  The font-display (font-stretch) of a block is the first  *)
(* non-empty display (stretch) among the faces of its group that are the   *)
(* first of their format, in input order; a face that is ignored for       *)
(* routing because its format was already seen gives nothing.  It is       *)
(* omitted when every face that is the first of its format has it empty.   *)
(***************************************************************************)
C14_DisplayFromFormatWinners ==
    \A i \in DOMAIN calls : \A b \in DOMAIN calls[i].css :
        LET W == { n \in GroupOfBlock(fonts, calls[i].family, calls[i].css[b]) :
                     FirstOfFormat(fonts, n) }
        IN  /\ BlockValOrEmpty(calls[i].css[b], "font-display") = FirstValue(fonts, W, "Display")
            /\ BlockValOrEmpty(calls[i].css[b], "font-stretch") = FirstValue(fonts, W, "Stretch")

\* a block was rendered without font-display for a group whose first face
\* has no display and whose second face, of the format of the first and so
\* ignored for routing, has one
C14_Witness ==
    /\ Returned /\ calls # <<>>
    /\ \E b \in DOMAIN calls[1].css :
          LET G == GroupOfBlock(fonts, calls[1].family, calls[1].css[b])
          IN  /\ Cardinality(G) >= 2
              /\ fonts[Min(G)].Display = <<>>
              /\ \E n \in G : fonts[n].Display # <<>> /\ ~ FirstOfFormat(fonts, n)
              /\ BlockValOrEmpty(calls[1].css[b], "font-display") = <<>>

(***************************************************************************)
(* C15.  The src declaration of a rendered block lists its entries in a    *)
(* fixed order, whatever the order of the input: when the group has an eot *)
(* route, the bare eot url and its '?#iefix' embedded-opentype entry come  *)
(* first; then local(''); then one url/format entry for each of woff2,     *)
(* woff, ttf, svg, in that order, that the group has a route for.  A       *)
(* format the group has no face of gives no entry.  Each entry names the   *)
(* prefixed route of the first face of its format.                         *)
(***************************************************************************)
\* the formats of a set of faces
FormatsOf(fs, S) == { fs[n].Format : n \in S }

\* the prefixed route of the first face of format f among the faces S
PathOfFormat(pre, fs, S, f) ==
    pre \o IdentifierOf(fs[Min({ n \in S : fs[n].Format = f })])

\* the entries the src declaration is to hold for the faces S
SrcEntries(pre, fs, S) ==
    LET order == SelectSeq(<<fmt_woff2, fmt_woff, fmt_ttf, fmt_svg>>,
                           LAMBDA f : f \in FormatsOf(fs, S))
    IN  (IF fmt_eot \in FormatsOf(fs, S)
         THEN << [kind |-> "legacy", url |-> PathOfFormat(pre, fs, S, fmt_eot)],
                 [kind |-> "url", url |-> PathOfFormat(pre, fs, S, fmt_eot) \o iefix,
                  format |-> eotfmt] >>
         ELSE <<>>)
        \o << [kind |-> "local"] >>
        \o [k \in DOMAIN order |->
              [kind |-> "url", url |-> PathOfFormat(pre, fs, S, order[k]),
               format |-> order[k]]]

C15_SrcEntriesInFixedOrder ==
    \A i \in DOMAIN calls : \A b \in DOMAIN calls[i].css :
        BlockVal(calls[i].css[b], "src")
            = SrcEntries(prefix, fonts,
                         GroupOfBlock(fonts, calls[i].family, calls[i].css[b]))

\* a block was rendered for a group given as a ttf face, then a woff2 face,
\* then an eot face: its src holds the eot entries, local(''), woff2, ttf
C15_Witness ==
    /\ Returned /\ calls # <<>>
    /\ Len(fonts) = 3
    /\ <<fonts[1].Format, fonts[2].Format, fonts[3].Format>> = <<fmt_ttf, fmt_woff2, fmt_eot>>
    /\ Len(calls[1].css) = 1
    /\ LET e == BlockVal(calls[1].css[1], "src")
       IN  /\ Len(e) = 5
           /\ e[1].kind = "legacy" /\ e[2].format = eotfmt /\ e[3].kind = "local"
           /\ e[4].format = fmt_woff2 /\ e[5].format = fmt_ttf

(***************************************************************************)
(* C17.  Every route given to the sink for a family is referenced by the   *)
(* stylesheet of that family: for each face that gives a route, the block  *)
(* of its (style, weight) group holds a url(...) entry with the prefixed   *)
(* path of that route.                                                     *)
(* process makes a route for a face of any format (route.go:85-98), while  *)
(* the src function writes entries for eot, woff2, woff, ttf and svg only  *)
(* (route.go:118-127): the route of a face of another format is in the     *)
(* list and in no block.                                                   *)
(***************************************************************************)
\* the urls the src declaration of a block holds
UrlsOfBlock(block) ==
    { BlockVal(block, "src")[k].url :
        k \in { j \in DOMAIN BlockVal(block, "src") :
                  BlockVal(block, "src")[j].kind \in {"legacy", "url"} } }

C17_RoutesReferenced ==
    \A i \in DOMAIN calls : \A n \in Winners(fonts, calls[i].family) :
        /\ \E k \in DOMAIN calls[i].routes :
              calls[i].routes[k] = Route(IdentifierOf(fonts[n]), fonts[n].Src)
        /\ \E b \in DOMAIN calls[i].css :
              /\ n \in GroupOfBlock(fonts, calls[i].family, calls[i].css[b])
              /\ prefix \o IdentifierOf(fonts[n]) \in UrlsOfBlock(calls[i].css[b])

\* the sink was given the route of an otf face and a stylesheet whose only
\* block holds no url at all
C17_Witness ==
    /\ Returned /\ Len(calls) = 1
    /\ Len(calls[1].routes) = 1
    /\ calls[1].routes[1].Path = IdentifierOf(fonts[1])
    /\ fonts[1].Format = fmt_otf
    /\ Len(calls[1].css) = 1
    /\ UrlsOfBlock(calls[1].css[1]) = {}

(***************************************************************************)
(* C18.  In the list of routes given to the sink for one family no two     *)
(* entries have the same path, whatever the input.                         *)
(* The routes of the groups of a family are appended as they are           *)
(* (route.go:58): a src that occurs under two styles or weights of the     *)
(* family gives the same route twice, and two src whose md5 digests agree  *)
(* in their first 7 hex characters give one path for two urls.             *)
(***************************************************************************)
C18_PathsDistinct ==
    \A i \in DOMAIN calls : \A k, l \in DOMAIN calls[i].routes :
        k # l => calls[i].routes[k].Path # calls[i].routes[l].Path

\* the sink was given a list in which one path stands for two urls
C18_Witness ==
    /\ Returned /\ calls # <<>>
    /\ \E k, l \in DOMAIN calls[1].routes :
          /\ k < l
          /\ calls[1].routes[k].Path = calls[1].routes[l].Path
          /\ calls[1].routes[k].URL # calls[1].routes[l].URL
\* the calls of the sink a call of BuildRoutes with the arguments of
\* goroutine g makes when no other call runs, family by family
AloneCalls(g) ==
    LET fams == ArrangeLoop(gin[g].fonts, NewFamilies)
        keys == SortedKeys(DOMAIN fams)
        all == [k \in DOMAIN keys |->
                  LET out == FamilyBody(ConcPrefix(g), keys[k],
                                        SortedKeys(DOMAIN fams[keys[k]]),
                                        [s \in DOMAIN fams[keys[k]] |->
                                            SortedKeys(DOMAIN fams[keys[k]][s])],
                                        fams)
                  IN  [family |-> keys[k], css |-> out.buf, routes |-> out.routes,
                       ret |-> SinkReturn(gin[g], k)]]
    IN  IF gin[g].failAt \in DOMAIN all THEN SubSeq(all, 1, gin[g].failAt) ELSE all

\* the error that call returns
AloneResult(g) ==
    IF AloneCalls(g) # <<>> /\ AloneCalls(g)[Len(AloneCalls(g))].ret # "nil"
    THEN HandlerError(AloneCalls(g)[Len(AloneCalls(g))].ret)
    ELSE "nil"

SupportedFormats == {fmt_eot, fmt_svg, fmt_ttf, fmt_woff2, fmt_woff}

\* C19: every call of Client.Format returns a Font of the requested format
\* with a nil error, or a non-nil error; an unsupported format name on an
\* initialised client returns ErrFormatNotAvailable without a request; a
\* failed request or parse is returned as a non-nil error.
C19_FormatSuccessHasMatchingFace ==
    (ncalls > 0 /\ last.op = "Format") =>
        /\ \/ last.err = "nil" /\ last.font.Format = last.format
           \/ last.err # "nil"
        /\ (last.format \notin SupportedFormats /\ last.initErr = "nil" /\ cl.cl # "nil")
              => (last.err = ErrFormatNotAvailable /\ last.fetched = <<>>)
        /\ last.getErr \notin {"none", "nil"} => last.err # "nil"

\* a call of Format whose request failed
C19_Witness ==
    /\ ncalls > 0 /\ last.op = "Format"
    /\ last.format \in SupportedFormats
    /\ last.fetched # <<>>
    /\ last.getErr \notin {"none", "nil"}

\* C20: the function given to once.Do runs at most once, and when init
\* failed in the first call on a client, every later call of Faces, All,
\* Format or Available returns a non-nil error and sends no request.
C20_FailedInitIsSticky ==
    /\ inits <= 1
    /\ (ncalls >= 2 /\ firstInitErr \notin {"none", "nil"}) =>
          /\ last.err # "nil"
          /\ last.fetched = <<>>

\* a call of Faces after the first call failed in buildUserAgent
C20_Witness ==
    /\ ncalls >= 2
    /\ firstInitErr = "errVerhist"
    /\ inits = 1
    /\ last.op = "Faces"
    /\ cl.userAgent = ""

====
